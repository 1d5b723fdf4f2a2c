------------------------- MODULE HostConfiguration -------------------------
(***************************************************************************)
(* worker/host_configuration.go and host_configuration_json.go: the         *)
(* host.json handed to the host in the answer to WorkerInit.  It is read    *)
(* once per process, whatever is deployed later.                            *)
(*                                                                         *)
(* A disk is what the read of $FUNCTIONS_APPLICATION_DIRECTORY/host.json     *)
(* meets: root (is the variable set), open and stat (the errors, "" for     *)
(* none), dir (root is a directory), bom, units, and close.  A unit is a    *)
(* JSON token or a malformed piece of the encoding; Size is its length in   *)
(* UTF-8.                                                                   *)
(***************************************************************************)
EXTENDS Naturals, SequencesExt

CONSTANTS
    Size,        \* bytes of each unit, a function on strings
    MaxBytes,    \* maxHostConfigurationBytes
    MaxDepth,    \* 64 in normalizeHostConfiguration
    MaxInits     \* bound: WorkerInit requests answered

ASSUME SizeAssumption ==
    /\ MaxBytes \in Nat
    /\ \A u \in DOMAIN Size : Size[u] \in Nat
    /\ {"str", "num", "{", "}", "[", "]", ",", ":"} \subseteq DOMAIN Size

VARIABLES
    disk,
    snapshot,    \* of the sync.OnceValue; status "none" until it is first used
    answers      \* the HostConfiguration of each answer, "none" when not asked

configurationVars == <<disk, snapshot, answers>>

Outcome(status, content) == [status |-> status, content |-> content]
Problem(reason) == Outcome(reason, <<>>)
NotRead == Problem("none")
Good(o) == o.status = "Available"

Bytes(units) ==
    LET upTo[i \in 0..Len(units)] == IF i = 0 THEN 0 ELSE upTo[i - 1] + Size[units[i]]
    IN upTo[Len(units)]

-----------------------------------------------------------------------------
(* decodeHostConfiguration: any of five byte order marks to UTF-8.          *)

Wide(bom) == bom \in {"utf16le", "utf16be"}

\* One scalar, from one unit or from a surrogate pair: its length and text.
Scalar(units, i, bom) ==
    LET u == units[i]
        paired == Wide(bom) /\ u = "high" /\ i < Len(units) /\ units[i + 1] = "low"
    IN IF u = "fault" THEN [n |-> 1, is |-> "ReadFailed"]
       ELSE IF paired THEN [n |-> 2, is |-> "astral"]
       ELSE IF u \in {"high", "low", "malformed", "cut"} THEN [n |-> 1, is |-> "InvalidEncoding"]
       ELSE [n |-> 1, is |-> u]
ScalarErrors == {"ReadFailed", "InvalidEncoding"}

\* Stops at the first malformed scalar, failed read or scalar too many.
decodeHostConfiguration(units, bom) ==
    LET second(i) == i > 1 /\ Scalar(units, i - 1, bom).n = 2
        decoded[i \in 0..Len(units)] ==
            IF i = 0 THEN Outcome("Available", <<>>)
            ELSE LET o == decoded[i - 1]
                     s == Scalar(units, i, bom).is
                 IN IF ~Good(o) \/ second(i) THEN o
                    ELSE IF s \in ScalarErrors THEN Problem(s)
                    ELSE IF Bytes(o.content) + Size[s] > MaxBytes THEN Problem("TooLarge")
                    ELSE Outcome("Available", Append(o.content, s))
    IN decoded[Len(units)]

-----------------------------------------------------------------------------
(* normalizeHostConfiguration: JSON with comments and trailing commas to    *)
(* JSON.  Strings and numbers are kept as they are spelled.                 *)

Comments == {"//", "/**/"}
Unterminated == {"open string", "open comment", "ambiguous //"}
Space == {" "}
Openers == {"{", "["}
Closers == {"}", "]"}

Stripped(ts) == [i \in DOMAIN ts |-> IF ts[i] \in Comments THEN " " ELSE ts[i]]

Depths(ts) ==
    [i \in DOMAIN ts |-> FoldLeft(LAMBDA n, t : IF t \in Openers THEN n + 1
                                               ELSE IF t \in Closers THEN n - 1 ELSE n,
                                 0, SubSeq(ts, 1, i))]

\* The pass over the commas, and json.Compact after it: a comma is dropped when
\* a value stands before it and a closer after it, what was dropped is space to
\* what follows, and the space goes.
Compacted(ts) ==
    LET solid(i) == ts[i] \notin Space
        after(i) == {j \in (i + 1)..Len(ts) : solid(j)}
        closes(i) == \E j \in after(i) : ts[j] \in Closers /\ \A k \in after(i) : j <= k
        trailing(i, before) ==
            /\ ts[i] = "," /\ closes(i)
            /\ before = <<>> \/ Last(before) \notin {"[", "{", ",", ":"}
        kept[i \in 0..Len(ts)] ==
            IF i = 0 THEN <<>>
            ELSE LET before == kept[i - 1] IN
                 IF ~solid(i) \/ trailing(i, before) THEN before ELSE Append(before, ts[i])
    IN kept[Len(ts)]

\* json.Compact rejects what is not one JSON value: a stack of the open
\* brackets and what may come next.
Literals == {"str", "num"}
JsonStep(s, t) ==
    LET top == IF s.stack = <<>> THEN "" ELSE Last(s.stack)
        valueDone == IF s.stack = <<>> THEN "end" ELSE "more"
        Go(next) == [s EXCEPT !.next = next]
        Bad == Go("bad")
    IN IF t = "str" /\ s.next \in {"key", "key or }"} THEN Go(":")
       ELSE IF t \in Literals /\ s.next \in {"value", "value or ]"} THEN Go(valueDone)
       ELSE IF t \in Openers /\ s.next \in {"value", "value or ]"}
            THEN [stack |-> Append(s.stack, t),
                  next |-> IF t = "{" THEN "key or }" ELSE "value or ]"]
       ELSE IF \/ t = "}" /\ top = "{" /\ s.next \in {"more", "key or }"}
               \/ t = "]" /\ top = "[" /\ s.next \in {"more", "value or ]"}
            THEN [stack |-> Front(s.stack), next |-> IF Len(s.stack) = 1 THEN "end" ELSE "more"]
       ELSE IF t = "," /\ s.next = "more" THEN Go(IF top = "{" THEN "key" ELSE "value")
       ELSE IF t = ":" /\ s.next = ":" THEN Go("value")
       ELSE Bad
IsJson(ts) ==
    LET state[i \in 0..Len(ts)] == IF i = 0 THEN [stack |-> <<>>, next |-> "value"]
                                   ELSE JsonStep(state[i - 1], ts[i])
    IN state[Len(ts)].next = "end"

normalizeHostConfiguration(ts) ==
    LET compact == Compacted(Stripped(ts))
    IN IF \/ \E i \in DOMAIN ts : ts[i] \in Unterminated
          \/ \E i \in DOMAIN compact : Depths(compact)[i] > MaxDepth
          \/ ~IsJson(compact)
       THEN Problem("InvalidJson")
       ELSE IF Bytes(compact) > MaxBytes THEN Problem("TooLarge")
       ELSE IF compact[1] # "{" THEN Problem("InvalidJson")
       ELSE Outcome("Available", compact)

-----------------------------------------------------------------------------
(* The snapshot.                                                            *)

\* Why host.json could not be opened; only a file missing from a directory
\* that is there counts as missing.
OpenProblem(d) ==
    LET absent == d.open \in {"NotExist", "NotDir"} IN
    IF absent /\ d.stat = "" /\ d.dir
    THEN (IF d.open = "NotExist" THEN "Missing" ELSE "OpenFailed")
    ELSE IF absent /\ d.stat = "Permission" THEN "AccessDenied"
    ELSE IF absent /\ (d.stat \in {"NotExist", "NotDir"} \/ (d.stat = "" /\ ~d.dir))
    THEN "AppDirectoryNotFound"
    ELSE IF d.open = "Permission" THEN "AccessDenied"
    ELSE "OpenFailed"

readHostConfiguration(d) ==
    LET decoded == decodeHostConfiguration(d.units, d.bom) IN
    IF d.root = "unset" THEN Problem("AppDirectoryNotSet")
    ELSE IF d.open # "" THEN Problem(OpenProblem(d))
    ELSE IF d.close # "" THEN Problem("ReadFailed")
    ELSE IF ~Good(decoded) THEN decoded
    ELSE normalizeHostConfiguration(decoded.content)

ConfigurationInit(disks) ==
    /\ disk \in disks
    /\ snapshot = NotRead /\ answers = <<>>

\* The site's content is replaced under the running worker.
Deploy(d) ==
    /\ d # disk
    /\ disk' = d
    /\ UNCHANGED <<snapshot, answers>>

\* sync.OnceValue.
Capture == IF snapshot = NotRead THEN readHostConfiguration(disk) ELSE snapshot

\* newHostConfigurationProvider: nothing for a host that does not ask.
AnswerConfiguration(asked) ==
    /\ Len(answers) < MaxInits
    /\ snapshot' = IF asked THEN Capture ELSE snapshot
    /\ answers' = Append(answers, IF asked THEN Capture ELSE NotRead)
    /\ UNCHANGED disk
=============================================================================
