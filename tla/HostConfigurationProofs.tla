----------------------- MODULE HostConfigurationProofs -----------------------
(***************************************************************************)
(* Proofs about HostConfiguration: for any bytes in host.json, what         *)
(* normalizeHostConfiguration hands to the host fits its limit and is left  *)
(* alone when it is normalized again.  The two lemmas that recursive        *)
(* functions are reasoned about with come first.                            *)
(***************************************************************************)
EXTENDS HostConfiguration, SequenceTheorems, WellFoundedInduction, TLAPS

-----------------------------------------------------------------------------
(* Induction and recursion on the natural numbers.                         *)

\* A set with 0 that is closed under successor has every number.
LEMMA Induction ==
    ASSUME NEW S, 0 \in S, \A n \in Nat : n \in S => n + 1 \in S
    PROVE  Nat \subseteq S
<1> DEFINE R == {ss \in Nat \X Nat : ss[1] < ss[2]}
           T == Nat \ S
<1>1. IsWellFoundedOn(R, Nat)
    BY NatLessThanWellFounded DEF OpToRel
<1> HIDE DEF R
<1> SUFFICES ASSUME T # {} PROVE FALSE
    OBVIOUS
<1>2. T \subseteq Nat
    OBVIOUS
<1>3. PICK x \in T : \A y \in T : ~(<<y, x>> \in R)
    BY <1>1, <1>2, WFMin
<1>4. x \in Nat /\ x # 0 /\ x - 1 \in Nat /\ (x - 1) + 1 = x
    BY <1>3
<1>5. x - 1 \notin T
  <2>1. <<x - 1, x>> \in R
      BY <1>4 DEF R
  <2> QED
      BY <1>3, <2>1
<1> QED
    BY <1>3, <1>4, <1>5

\* What a loop of n steps does to a value of S, from base.
IsRun(f, S, base, n, step) ==
    f \in [0..n -> S] /\ f[0] = base /\ \A k \in 1..n : f[k] = step[k][f[k - 1]]

\* A loop has a run: a function that is defined by its first value and by the
\* value after each step exists.
LEMMA Recursion ==
    ASSUME NEW S, NEW base \in S, NEW n \in Nat, NEW step \in [1..n -> [S -> S]]
    PROVE  \E f : IsRun(f, S, base, n, step)
<1> DEFINE Defined(m, f) ==
        f \in [0..m -> S] /\ f[0] = base /\ \A k \in 1..m : f[k] = step[k][f[k - 1]]
      P == {m \in Nat : m <= n => \E f : Defined(m, f)}
<1>1. 0 \in P
  <2>1. Defined(0, [k \in 0..0 |-> base])
      OBVIOUS
  <2> QED
      BY <2>1
<1>2. ASSUME NEW m \in Nat, m \in P PROVE m + 1 \in P
  <2> SUFFICES ASSUME m + 1 <= n PROVE \E f : Defined(m + 1, f)
      OBVIOUS
  <2>1. PICK f : Defined(m, f)
      BY <1>2
  <2> DEFINE g == [k \in 0..(m + 1) |-> IF k = m + 1 THEN step[m + 1][f[m]] ELSE f[k]]
  <2>2. f[m] \in S /\ m + 1 \in 1..n /\ step[m + 1] \in [S -> S]
      BY <2>1
  <2>3. step[m + 1][f[m]] \in S
      BY <2>2
  <2>4. /\ \A k \in 0..m : k # m + 1 /\ k \in 0..(m + 1)
        /\ 0..(m + 1) = (0..m) \cup {m + 1} /\ 1..(m + 1) = (1..m) \cup {m + 1}
        /\ \A k \in 1..m : k \in 0..m /\ k - 1 \in 0..m
        /\ 0 \in 0..m /\ m \in 0..m /\ (m + 1) - 1 = m
      OBVIOUS
  <2>5. g \in [0..(m + 1) -> S] /\ g[0] = base
      BY <2>1, <2>3, <2>4
  <2>6. \A k \in 0..m : g[k] = f[k]
      BY <2>4
  <2>7. g[m + 1] = step[m + 1][f[m]]
      BY <2>4
  <2>8. \A k \in 1..(m + 1) : g[k] = step[k][g[k - 1]]
    <3> HIDE DEF g
    <3> QED
        BY <2>1, <2>4, <2>6, <2>7
  <2>9. Defined(m + 1, g)
    <3> HIDE DEF g
    <3> QED
        BY <2>5, <2>8
  <2> QED
      BY <2>9
<1>3. n \in P
  <2> HIDE DEF P
  <2>1. Nat \subseteq P
      BY <1>1, <1>2, Induction
  <2> QED
      BY <2>1
<1> QED
    BY <1>3 DEF IsRun

\* What no step of a loop leaves, the loop does not leave.
LEMMA LoopInvariant ==
    ASSUME NEW S, NEW n \in Nat, NEW f, f[0] \in S,
           \A k \in 1..n : f[k - 1] \in S => f[k] \in S
    PROVE  \A k \in 0..n : f[k] \in S
<1> DEFINE P == {k \in Nat : k <= n => f[k] \in S}
<1>1. 0 \in P
    OBVIOUS
<1>2. ASSUME NEW k \in Nat, k \in P PROVE k + 1 \in P
  <2> SUFFICES ASSUME k + 1 <= n PROVE f[k + 1] \in S
      OBVIOUS
  <2>1. k + 1 \in 1..n /\ (k + 1) - 1 = k /\ f[k] \in S
      BY <1>2
  <2> QED
      BY <2>1
<1>3. Nat \subseteq P
  <2> HIDE DEF P
  <2> QED
      BY <1>1, <1>2, Induction
<1> QED
    BY <1>3

-----------------------------------------------------------------------------
(* The loops of host_configuration.go and host_configuration_json.go.       *)

JsonTokens == {"str", "num", "{", "}", "[", "]", ",", ":"}
JsonStates ==
    [stack : Seq(Openers),
     next : {"bad", "key", "key or }", "value", "value or ]", ":", "more", "end"}]

\* The bytes of a text of JSON tokens are a number.
LEMMA BytesOfTokens ==
    ASSUME NEW U, NEW c \in Seq(U), \A i \in 1..Len(c) : c[i] \in JsonTokens
    PROVE  Bytes(c) \in Nat
<1> DEFINE n == Len(c)
           step == [k \in 1..n |-> [x \in Nat |-> x + Size[c[k]]]]
<1>1. n \in Nat
    BY LenProperties
<1>2. \A k \in 1..n : Size[c[k]] \in Nat
    BY SizeAssumption DEF JsonTokens
<1>3. step \in [1..n -> [Nat -> Nat]]
    BY <1>2
<1> HIDE DEF n
<1>4. PICK f : IsRun(f, Nat, 0, n, step)
  <2> HIDE DEF step
  <2>1. 0 \in Nat
      OBVIOUS
  <2> QED
      BY <1>1, <1>3, <2>1, Recursion
<1>5. f = [k \in 0..n |-> IF k = 0 THEN 0 ELSE f[k - 1] + Size[c[k]]]
  <2>1. f \in [0..n -> Nat] /\ f[0] = 0 /\ \A k \in 1..n : f[k] = step[k][f[k - 1]]
      BY <1>4 DEF IsRun
  <2>2. \A k \in 0..n : k # 0 => k \in 1..n /\ f[k - 1] \in Nat
      BY <1>1, <2>1
  <2> QED
      BY <2>1, <2>2
<1> DEFINE upTo == CHOOSE g : g = [k \in 0..n |-> IF k = 0 THEN 0 ELSE g[k - 1] + Size[c[k]]]
<1>6. upTo = [k \in 0..n |-> IF k = 0 THEN 0 ELSE upTo[k - 1] + Size[c[k]]]
    BY <1>5
<1>7. Bytes(c) = upTo[n]
    BY DEF Bytes, n
<1> HIDE DEF upTo
<1>8. \A k \in 0..n : upTo[k] \in Nat
  <2>1. upTo[0] \in Nat
      BY <1>1, <1>6
  <2>2. ASSUME NEW k \in 1..n, upTo[k - 1] \in Nat PROVE upTo[k] \in Nat
    <3>1. k \in 0..n /\ k # 0
        BY <1>1
    <3>2. upTo[k] = upTo[k - 1] + Size[c[k]]
        BY <1>6, <3>1
    <3> QED
        BY <1>2, <2>2, <3>2
  <2> QED
      BY <1>1, <2>1, <2>2, LoopInvariant
<1> QED
    BY <1>1, <1>7, <1>8

\* decodeHostConfiguration: whatever is read, what it yields is a sequence of
\* what was read and of what surrogate pairs stand for.
LEMMA DecodedIsText ==
    ASSUME NEW U, NEW units \in Seq(U), NEW bom
    PROVE  decodeHostConfiguration(units, bom).content \in Seq(U \cup {"astral"})
<1> DEFINE n == Len(units)
           T == U \cup {"astral"}
           S == [status : {"Available", "TooLarge", "ReadFailed", "InvalidEncoding"},
                 content : Seq(T)]
           second(i) == i > 1 /\ Scalar(units, i - 1, bom).n = 2
           is(i) == Scalar(units, i, bom).is
           G(o, i) == IF ~Good(o) \/ second(i) THEN o
                      ELSE IF is(i) \in ScalarErrors THEN Problem(is(i))
                      ELSE IF Bytes(o.content) + Size[is(i)] > MaxBytes THEN Problem("TooLarge")
                      ELSE Outcome("Available", Append(o.content, is(i)))
           first == Outcome("Available", <<>>)
           step == [k \in 1..n |-> [o \in S |-> G(o, k)]]
<1>1. n \in Nat /\ \A k \in 1..n : units[k] \in U
    BY LenProperties, ElementOfSeq
<1>2. \A k \in 1..n : is(k) \in T \/ is(k) \in ScalarErrors
    BY <1>1 DEF Scalar, ScalarErrors
<1> HIDE DEF T
<1>3. <<>> \in Seq(T)
    BY EmptySeq
<1>4. first \in S
    BY <1>3 DEF Outcome
<1>5. ASSUME NEW k \in 1..n, NEW o \in S PROVE G(o, k) \in S
  <2>1. o.content \in Seq(T)
      OBVIOUS
  <2>2. is(k) \notin ScalarErrors => Append(o.content, is(k)) \in Seq(T)
    <3> HIDE DEF is, S
    <3> QED
        BY <1>2, <2>1, AppendProperties
  <2> HIDE DEF second, is
  <2>3. Problem("TooLarge") \in S /\ (is(k) \in ScalarErrors => Problem(is(k)) \in S)
      BY <1>3 DEF Problem, Outcome, ScalarErrors
  <2>4. is(k) \notin ScalarErrors => Outcome("Available", Append(o.content, is(k))) \in S
      BY <2>2 DEF Outcome
  <2> HIDE DEF S
  <2> QED
      BY <2>3, <2>4
<1> HIDE DEF n, S, second, is, first
<1> HIDE DEF G
<1>6. step \in [1..n -> [S -> S]]
    BY <1>5
<1>7. PICK f : IsRun(f, S, first, n, step)
  <2> HIDE DEF step
  <2> QED
      BY <1>1, <1>4, <1>6, Recursion
<1>8. f = [k \in 0..n |-> IF k = 0 THEN first ELSE G(f[k - 1], k)]
  <2>1. f \in [0..n -> S] /\ f[0] = first /\ \A k \in 1..n : f[k] = step[k][f[k - 1]]
      BY <1>7 DEF IsRun
  <2>2. \A k \in 0..n : k # 0 => k \in 1..n /\ f[k - 1] \in S
      BY <1>1, <2>1
  <2> QED
      BY <2>1, <2>2
<1> DEFINE decoded ==
        CHOOSE g : g = [k \in 0..n |-> IF k = 0 THEN first ELSE G(g[k - 1], k)]
<1>9. decoded = [k \in 0..n |-> IF k = 0 THEN first ELSE G(decoded[k - 1], k)]
    BY <1>8
<1>10. decodeHostConfiguration(units, bom) = decoded[n]
    BY DEF decodeHostConfiguration, n, G, first, second, is
<1> HIDE DEF decoded
<1>11. \A k \in 0..n : decoded[k] \in S
  <2>1. decoded[0] \in S
      BY <1>1, <1>4, <1>9
  <2>2. ASSUME NEW k \in 1..n, decoded[k - 1] \in S PROVE decoded[k] \in S
    <3>1. k \in 0..n /\ k # 0
        BY <1>1
    <3>2. decoded[k] = G(decoded[k - 1], k)
        BY <1>9, <3>1
    <3> QED
        BY <1>5, <2>2, <3>2
  <2> QED
      BY <1>1, <2>1, <2>2, LoopInvariant
<1> QED
    BY <1>1, <1>10, <1>11 DEF S, T

\* json.Compact, one token: what is not a token of JSON, or a closer where a key
\* or a value must come, is an error, and an error stays one.
LEMMA JsonStepFacts ==
    ASSUME NEW s \in JsonStates, NEW t
    PROVE  /\ JsonStep(s, t) \in JsonStates
           /\ s.next = "bad" => JsonStep(s, t).next = "bad"
           /\ JsonStep(s, t).next # "bad" => t \in JsonTokens
           /\ JsonStep(s, t).next # "bad" /\ t = "," =>
                 JsonStep(s, t).next \in {"key", "value"}
           /\ JsonStep(s, t).next # "bad" /\ s.next \in {"key", "value"} => t \notin Closers
<1> DEFINE top == IF s.stack = <<>> THEN "" ELSE Last(s.stack)
           done == IF s.stack = <<>> THEN "end" ELSE "more"
           opened == [stack |-> Append(s.stack, t),
                      next |-> IF t = "{" THEN "key or }" ELSE "value or ]"]
           closed == [stack |-> Front(s.stack),
                      next |-> IF Len(s.stack) = 1 THEN "end" ELSE "more"]
<1>1. s.stack \in Seq(Openers) /\ DOMAIN s = {"stack", "next"}
    BY DEF JsonStates
<1>2. t \in Openers => Append(s.stack, t) \in Seq(Openers)
    BY <1>1, AppendProperties
<1>3. Front(s.stack) \in Seq(Openers)
  <2>1. Len(s.stack) \in Nat /\ \A i \in 1..Len(s.stack) : s.stack[i] \in Openers
      BY <1>1, LenProperties, ElementOfSeq
  <2>2. Len(s.stack) - 1 \in Int /\ \A i \in 1..(Len(s.stack) - 1) : s.stack[i] \in Openers
      BY <2>1
  <2> QED
      BY <2>2, SubSeqProperties DEF Front
<1>4. \/ t = "str" /\ s.next \in {"key", "key or }"}
         /\ JsonStep(s, t) = [s EXCEPT !.next = ":"]
      \/ t \in Literals /\ s.next \in {"value", "value or ]"}
         /\ JsonStep(s, t) = [s EXCEPT !.next = done]
      \/ t \in Openers /\ s.next \in {"value", "value or ]"} /\ JsonStep(s, t) = opened
      \/ t \in Closers /\ top # "" /\ s.next \in {"more", "key or }", "value or ]"}
         /\ JsonStep(s, t) = closed
      \/ t = "," /\ s.next = "more"
         /\ JsonStep(s, t) = [s EXCEPT !.next = IF top = "{" THEN "key" ELSE "value"]
      \/ t = ":" /\ s.next = ":" /\ JsonStep(s, t) = [s EXCEPT !.next = "value"]
      \/ JsonStep(s, t) = [s EXCEPT !.next = "bad"]
  <2> DEFINE R == JsonStep(s, t)
  <2> HIDE DEF top
  <2> QED
      BY DEF JsonStep, Closers, top
<1> HIDE DEF top
<1>5. \A x \in {"bad", "key", "value", ":", "more", "end"} :
         [s EXCEPT !.next = x] \in JsonStates /\ [s EXCEPT !.next = x].next = x
    BY DEF JsonStates
<1>6. (t \in Openers => opened \in JsonStates) /\ closed \in JsonStates
    BY <1>2, <1>3 DEF JsonStates
<1>7. done \in {"end", "more"}
    OBVIOUS
<1>8. opened.next \in {"key or }", "value or ]"} /\ closed.next \in {"end", "more"}
    OBVIOUS
<1> HIDE DEF done, opened, closed
<1> QED
    BY <1>4, <1>5, <1>6, <1>7, <1>8 DEF JsonTokens, Literals, Openers, Closers

\* One JSON value has no comments, spaces or malformed pieces in it, and no
\* closer after a comma.
LEMMA JsonIsClean ==
    ASSUME NEW U, NEW c \in Seq(U), IsJson(c)
    PROVE  /\ \A i \in 1..Len(c) : c[i] \in JsonTokens
           /\ \A i \in 1..Len(c) : c[i] = "," /\ i + 1 <= Len(c) => c[i + 1] \notin Closers
<1> DEFINE n == Len(c)
           first == [stack |-> <<>>, next |-> "value"]
           step == [k \in 1..n |-> [s \in JsonStates |-> JsonStep(s, c[k])]]
<1>1. n \in Nat
    BY LenProperties
<1>2. first \in JsonStates
  <2>1. <<>> \in Seq(Openers)
      BY EmptySeq
  <2> QED
      BY <2>1 DEF JsonStates
<1>3. step \in [1..n -> [JsonStates -> JsonStates]]
  <2>1. \A k \in 1..n, s \in JsonStates : JsonStep(s, c[k]) \in JsonStates
      BY JsonStepFacts
  <2> HIDE DEF JsonStates
  <2> QED
      BY <2>1
<1> HIDE DEF n, first
<1>4. PICK f : IsRun(f, JsonStates, first, n, step)
  <2> HIDE DEF step
  <2> QED
      BY <1>1, <1>2, <1>3, Recursion
<1>5. f = [k \in 0..n |-> IF k = 0 THEN first ELSE JsonStep(f[k - 1], c[k])]
  <2>1. /\ f \in [0..n -> JsonStates] /\ f[0] = first
        /\ \A k \in 1..n : f[k] = step[k][f[k - 1]]
      BY <1>4 DEF IsRun
  <2>2. \A k \in 0..n : k # 0 => k \in 1..n /\ f[k - 1] \in JsonStates
      BY <1>1, <2>1
  <2> QED
      BY <2>1, <2>2
<1> DEFINE state ==
        CHOOSE g : g = [k \in 0..n |-> IF k = 0 THEN first ELSE JsonStep(g[k - 1], c[k])]
<1>6. state = [k \in 0..n |-> IF k = 0 THEN first ELSE JsonStep(state[k - 1], c[k])]
    BY <1>5
<1>7. state[n].next = "end"
    BY DEF IsJson, n, first
<1> HIDE DEF state
<1>8. state[0] = first /\ \A k \in 1..n : state[k] = JsonStep(state[k - 1], c[k])
  <2>1. 0 \in 0..n /\ \A k \in 1..n : k \in 0..n /\ k # 0
      BY <1>1
  <2> QED
      BY <1>6, <2>1
<1>9. \A k \in 0..n : state[k] \in JsonStates
  <2> HIDE DEF JsonStates
  <2>1. ASSUME NEW k \in 1..n, state[k - 1] \in JsonStates PROVE state[k] \in JsonStates
      BY <1>8, <2>1, JsonStepFacts
  <2> QED
      BY <1>1, <1>2, <1>8, <2>1, LoopInvariant
<1>10. \A k \in 1..n : state[k - 1] \in JsonStates
  <2>1. \A k \in 1..n : k - 1 \in 0..n
      BY <1>1
  <2> QED
      BY <1>9, <2>1
<1>11. \A k \in 0..n : state[k].next # "bad"
  <2> DEFINE P == {k \in Nat : k <= n => state[n - k].next # "bad"}
  <2>1. 0 \in P
      BY <1>1, <1>7
  <2>2. ASSUME NEW k \in Nat, k \in P PROVE k + 1 \in P
    <3> SUFFICES ASSUME k + 1 <= n PROVE state[n - (k + 1)].next # "bad"
        OBVIOUS
    <3>1. n - k \in 1..n /\ (n - k) - 1 = n - (k + 1) /\ state[n - k].next # "bad"
        BY <1>1, <2>2
    <3>2. PICK j \in 1..n : j = n - k
        BY <3>1
    <3>3. state[j] = JsonStep(state[j - 1], c[j]) /\ state[j - 1] \in JsonStates
        BY <1>8, <1>10
    <3>4. state[j - 1].next # "bad"
        BY <3>1, <3>2, <3>3, JsonStepFacts
    <3> QED
        BY <3>1, <3>2, <3>4
  <2>3. Nat \subseteq P
    <3> HIDE DEF P
    <3> QED
        BY <2>1, <2>2, Induction
  <2>4. ASSUME NEW k \in 0..n PROVE state[k].next # "bad"
    <3>1. n - k \in Nat /\ n - k <= n /\ n - (n - k) = k
        BY <1>1
    <3>2. n - k \in P
        BY <2>3, <3>1
    <3> QED
        BY <3>1, <3>2
  <2> QED
      BY <2>4
<1>12. ASSUME NEW i \in 1..n
       PROVE  /\ c[i] \in JsonTokens
              /\ c[i] = "," /\ i + 1 <= n => c[i + 1] \notin Closers
  <2>1. /\ i \in 0..n /\ state[i].next # "bad" /\ state[i] = JsonStep(state[i - 1], c[i])
        /\ state[i - 1] \in JsonStates
      BY <1>1, <1>8, <1>10, <1>11
  <2>2. c[i] \in JsonTokens /\ (c[i] = "," => state[i].next \in {"key", "value"})
      BY <2>1, JsonStepFacts
  <2>3. ASSUME i + 1 <= n PROVE c[i] = "," => c[i + 1] \notin Closers
    <3>1. i + 1 \in 1..n /\ i + 1 \in 0..n /\ (i + 1) - 1 = i
        BY <1>1, <2>3
    <3>2. /\ state[i + 1] = JsonStep(state[i], c[i + 1]) /\ state[i + 1].next # "bad"
          /\ state[i] \in JsonStates
        BY <1>8, <1>9, <1>11, <2>1, <3>1
    <3> QED
        BY <2>2, <3>2, JsonStepFacts
  <2> QED
      BY <2>2, <2>3
<1> QED
    BY <1>12 DEF n

\* What is not written: space, and a comma with a value before it and a closer
\* after it.
Drops(ts, i, before) ==
    LET solid(j) == ts[j] \notin Space
        after(j) == {k \in (j + 1)..Len(ts) : solid(k)}
        closes(j) == \E k \in after(j) : ts[k] \in Closers /\ \A l \in after(j) : k <= l
        trailing(j, b) ==
            /\ ts[j] = "," /\ closes(j)
            /\ b = <<>> \/ Last(b) \notin {"[", "{", ",", ":"}
    IN ~solid(i) \/ trailing(i, before)

\* The pass over the commas, token by token.
LEMMA CompactedStepwise ==
    ASSUME NEW U, NEW ts \in Seq(U)
    PROVE  \E kept :
              /\ kept[0] = <<>> /\ Compacted(ts) = kept[Len(ts)]
              /\ \A k \in 1..Len(ts) :
                    kept[k] = IF Drops(ts, k, kept[k - 1]) THEN kept[k - 1]
                              ELSE Append(kept[k - 1], ts[k])
              /\ \A k \in 0..Len(ts) : kept[k] \in Seq(U)
<1> DEFINE n == Len(ts)
           S == Seq(U)
           first == <<>>
           G(b, k) == IF Drops(ts, k, b) THEN b ELSE Append(b, ts[k])
           step == [k \in 1..n |-> [b \in S |-> G(b, k)]]
<1>1. n \in Nat /\ \A k \in 1..n : ts[k] \in U
    BY LenProperties, ElementOfSeq
<1>2. first \in S
    BY EmptySeq
<1>3. ASSUME NEW k \in 1..n, NEW b \in S PROVE G(b, k) \in S
    BY <1>1, AppendProperties
<1> HIDE DEF n, S, first, G
<1>4. step \in [1..n -> [S -> S]]
    BY <1>3
<1>5. PICK f : IsRun(f, S, first, n, step)
  <2> HIDE DEF step
  <2> QED
      BY <1>1, <1>2, <1>4, Recursion
<1>6. f = [k \in 0..n |-> IF k = 0 THEN first ELSE G(f[k - 1], k)]
  <2>1. f \in [0..n -> S] /\ f[0] = first /\ \A k \in 1..n : f[k] = step[k][f[k - 1]]
      BY <1>5 DEF IsRun
  <2>2. \A k \in 0..n : k # 0 => k \in 1..n /\ f[k - 1] \in S
      BY <1>1, <2>1
  <2> QED
      BY <2>1, <2>2
<1> DEFINE kept == CHOOSE g : g = [k \in 0..n |-> IF k = 0 THEN first ELSE G(g[k - 1], k)]
<1>7. kept = [k \in 0..n |-> IF k = 0 THEN first ELSE G(kept[k - 1], k)]
    BY <1>6
<1>8. Compacted(ts) = kept[n]
    BY DEF Compacted, n, first, G, Drops
<1> HIDE DEF kept
<1>9. kept[0] = first /\ \A k \in 1..n : kept[k] = G(kept[k - 1], k)
  <2>1. 0 \in 0..n /\ \A k \in 1..n : k \in 0..n /\ k # 0
      BY <1>1
  <2> QED
      BY <1>7, <2>1
<1>10. \A k \in 0..n : kept[k] \in S
    BY <1>1, <1>2, <1>3, <1>9, LoopInvariant
<1> QED
    BY <1>8, <1>9, <1>10 DEF n, S, first, G

\* A copy made token by token is the text.
LEMMA CopiedStepwise ==
    ASSUME NEW U, NEW c \in Seq(U), NEW kept, kept[0] = <<>>,
           \A k \in 1..Len(c) : kept[k] = Append(kept[k - 1], c[k])
    PROVE  kept[Len(c)] = c
<1> DEFINE n == Len(c)
           upTo(k) == SubSeq(c, 1, k)
<1>1. n \in Nat /\ \A k \in 1..n : c[k] \in U
    BY LenProperties, ElementOfSeq
<1>2. upTo(0) = <<>> /\ upTo(n) = c
    BY SubSeqEmpty, SubSeqFull
<1>3. ASSUME NEW k \in 1..n PROVE upTo(k) = Append(upTo(k - 1), c[k])
  <2>1. k \in 1..Len(c) /\ 1 \in 1..Len(c)
    <3> HIDE DEF n
    <3>1. 1 \in 1..n
        BY <1>1
    <3> QED
        BY <3>1 DEF n
  <2>2. 1 <= k
    <3> HIDE DEF n
    <3> QED
        BY <1>1
  <2>3. upTo(k) = upTo(k - 1) \o <<c[k]>>
      BY <2>1, <2>2, SubSeqRecursiveSecond
  <2>4. upTo(k - 1) \in Seq(U)
    <3>1. k - 1 \in Int /\ \A i \in 1..(k - 1) : i \in 1..n
      <4> HIDE DEF n
      <4> QED
          BY <1>1
    <3>2. \A i \in 1..(k - 1) : c[i] \in U
      <4> HIDE DEF n
      <4> QED
          BY <1>1, <3>1
    <3> HIDE DEF n
    <3> QED
        BY <3>1, <3>2, SubSeqProperties
  <2>5. c[k] \in U
      BY <1>1
  <2> HIDE DEF upTo
  <2> QED
      BY <2>3, <2>4, <2>5, AppendIsConcat
<1>4. kept[0] = upTo(0) /\ \A k \in 1..n : kept[k] = Append(kept[k - 1], c[k])
    BY <1>2
<1> HIDE DEF upTo, n
<1> DEFINE P == {k \in Nat : k <= n => kept[k] = upTo(k)}
<1>5. 0 \in P
    BY <1>4
<1>6. ASSUME NEW k \in Nat, k \in P PROVE k + 1 \in P
  <2> SUFFICES ASSUME k + 1 <= n PROVE kept[k + 1] = upTo(k + 1)
      OBVIOUS
  <2>1. k + 1 \in 1..n /\ (k + 1) - 1 = k /\ k <= n
      BY <1>1
  <2>2. kept[k] = upTo(k)
      BY <1>6, <2>1
  <2>3. kept[k + 1] = Append(kept[k], c[k + 1]) /\ upTo(k + 1) = Append(upTo(k), c[k + 1])
      BY <1>3, <1>4, <2>1
  <2> QED
      BY <2>2, <2>3
<1>7. n \in P
  <2> HIDE DEF P
  <2> QED
      BY <1>1, <1>5, <1>6, Induction
<1> QED
    BY <1>1, <1>2, <1>7 DEF n

\* The first index after another is the next one.
LEMMA NextIsFirst ==
    ASSUME NEW n \in Nat, NEW i \in 1..n, NEW k \in (i + 1)..n,
           \A l \in 1..n : l \in (i + 1)..n => k <= l
    PROVE  k = i + 1 /\ i + 1 <= n
<1>1. i + 1 \in (i + 1)..n /\ i + 1 \in 1..n
    OBVIOUS
<1>2. k <= i + 1
    BY <1>1
<1> QED
    BY <1>2

\* Comments and the pass over the commas leave a text alone that has neither
\* comments and spaces nor a closer after a comma.
LEMMA CleanIsKept ==
    ASSUME NEW U, NEW c \in Seq(U),
           \A i \in 1..Len(c) : c[i] \in JsonTokens,
           \A i \in 1..Len(c) : c[i] = "," /\ i + 1 <= Len(c) => c[i + 1] \notin Closers
    PROVE  Stripped(c) = c /\ Compacted(c) = c
<1>1. Len(c) \in Nat /\ DOMAIN c = 1..Len(c) /\ c \in [1..Len(c) -> U]
    BY LenProperties
<1>2. \A i \in 1..Len(c) : c[i] \notin Space /\ c[i] \notin Comments
    BY DEF JsonTokens, Space, Comments
<1>3. Stripped(c) = c
    BY <1>1, <1>2 DEF Stripped
<1>4. ASSUME NEW i \in 1..Len(c), NEW b PROVE ~Drops(c, i, b)
  <2> DEFINE n == Len(c)
  <2>1. ASSUME NEW k \in (i + 1)..n, \A l \in (i + 1)..n : c[l] \notin Space => k <= l
        PROVE  k = i + 1 /\ i + 1 <= n
    <3>1. n \in Nat /\ i \in 1..n /\ \A l \in 1..n : c[l] \notin Space
        BY <1>1, <1>2
    <3> HIDE DEF n
    <3>2. \A l \in 1..n : l \in (i + 1)..n => k <= l
        BY <2>1, <3>1
    <3> QED
        BY <2>1, <3>1, <3>2, NextIsFirst
  <2>2. ASSUME Drops(c, i, b)
        PROVE  /\ c[i] = ","
               /\ \E k \in (i + 1)..n : c[k] \in Closers
                     /\ \A l \in (i + 1)..n : c[l] \notin Space => k <= l
      BY <1>2, <2>2 DEF Drops
  <2> QED
      BY <2>1, <2>2
<1>5. PICK kept :
         /\ kept[0] = <<>> /\ Compacted(c) = kept[Len(c)]
         /\ \A k \in 1..Len(c) :
               kept[k] = IF Drops(c, k, kept[k - 1]) THEN kept[k - 1]
                         ELSE Append(kept[k - 1], c[k])
    BY CompactedStepwise
<1>6. \A k \in 1..Len(c) : kept[k] = Append(kept[k - 1], c[k])
    BY <1>4, <1>5
<1> QED
    BY <1>3, <1>5, <1>6, CopiedStepwise

\* normalizeHostConfiguration: what it accepts fits maxHostConfigurationBytes and
\* is normal, so the host that normalizes it again has what it was sent.
LEMMA NormalFormIsKept ==
    ASSUME NEW U, NEW ts \in Seq(U), Good(normalizeHostConfiguration(ts))
    PROVE  LET r == normalizeHostConfiguration(ts) IN
           Bytes(r.content) <= MaxBytes /\ normalizeHostConfiguration(r.content) = r
<1> DEFINE r == normalizeHostConfiguration(ts)
           c == Compacted(Stripped(ts))
           T == U \cup Space
<1>1. Stripped(ts) \in Seq(T)
  <2>1. Len(ts) \in Nat /\ DOMAIN ts = 1..Len(ts) /\ \A i \in 1..Len(ts) : ts[i] \in U
      BY LenProperties, ElementOfSeq
  <2>2. Stripped(ts) \in [1..Len(ts) -> T]
      BY <2>1 DEF Stripped, Space
  <2> HIDE DEF T
  <2> QED
      BY <2>1, <2>2, SeqDef
<1> HIDE DEF T
<1>2. c \in Seq(T)
  <2>1. Len(Stripped(ts)) \in Nat
      BY <1>1, LenProperties
  <2>2. PICK kept : /\ Compacted(Stripped(ts)) = kept[Len(Stripped(ts))]
                    /\ \A k \in 0..Len(Stripped(ts)) : kept[k] \in Seq(T)
      BY <1>1, CompactedStepwise
  <2> QED
      BY <2>1, <2>2
<1> DEFINE wrong == \/ \E i \in DOMAIN ts : ts[i] \in Unterminated
                    \/ \E i \in DOMAIN c : Depths(c)[i] > MaxDepth
                    \/ ~IsJson(c)
           large == Bytes(c) > MaxBytes
<1>3. ~wrong /\ ~large /\ c[1] = "{" /\ r = Outcome("Available", c)
  <2>1. r = IF wrong THEN Problem("InvalidJson")
            ELSE IF large THEN Problem("TooLarge")
            ELSE IF c[1] # "{" THEN Problem("InvalidJson")
            ELSE Outcome("Available", c)
      BY DEF normalizeHostConfiguration
  <2>2. r.status = "Available"
      BY DEF Good
  <2> HIDE DEF c, wrong, large, r
  <2>3. Problem("InvalidJson").status # "Available" /\ Problem("TooLarge").status # "Available"
      BY DEF Problem, Outcome
  <2> QED
      BY <2>1, <2>2, <2>3
<1> HIDE DEF c
<1>4. /\ \A i \in 1..Len(c) : c[i] \in JsonTokens
      /\ \A i \in 1..Len(c) : c[i] = "," /\ i + 1 <= Len(c) => c[i + 1] \notin Closers
    BY <1>2, <1>3, JsonIsClean
<1>5. Stripped(c) = c /\ Compacted(c) = c
    BY <1>2, <1>4, CleanIsKept
<1>6. \A i \in DOMAIN c : c[i] \notin Unterminated
  <2>1. DOMAIN c = 1..Len(c)
      BY <1>2, LenProperties
  <2> QED
      BY <1>4, <2>1 DEF JsonTokens, Unterminated
<1>7. normalizeHostConfiguration(c) = Outcome("Available", c)
  <2> DEFINE bad == \/ \E i \in DOMAIN c : c[i] \in Unterminated
                    \/ \E i \in DOMAIN c : Depths(c)[i] > MaxDepth
                    \/ ~IsJson(c)
             q == normalizeHostConfiguration(c)
  <2>1. ~(\E i \in DOMAIN c : Depths(c)[i] > MaxDepth) /\ IsJson(c)
      BY <1>3
  <2>2. ~bad
      BY <1>6, <2>1
  <2>3. q = IF bad THEN Problem("InvalidJson")
            ELSE IF large THEN Problem("TooLarge")
            ELSE IF c[1] # "{" THEN Problem("InvalidJson")
            ELSE Outcome("Available", c)
      BY <1>5 DEF normalizeHostConfiguration
  <2>4. ~large /\ c[1] = "{"
      BY <1>3
  <2> HIDE DEF q, bad, large
  <2>5. q = Outcome("Available", c)
      BY <2>2, <2>3, <2>4
  <2> QED
      BY <2>5 DEF q
<1>8. Bytes(c) <= MaxBytes
  <2> DEFINE b == Bytes(c)
  <2>1. b \in Nat /\ MaxBytes \in Nat /\ ~(b > MaxBytes)
      BY <1>2, <1>3, <1>4, BytesOfTokens, SizeAssumption
  <2> HIDE DEF b
  <2>2. b <= MaxBytes
      BY <2>1
  <2> QED
      BY <2>2 DEF b
<1> HIDE DEF wrong, large, r
<1>9. r.content = c
    BY <1>3 DEF Outcome
<1>10. Bytes(r.content) <= MaxBytes /\ normalizeHostConfiguration(r.content) = r
    BY <1>3, <1>7, <1>8, <1>9
<1> QED
    BY <1>10 DEF r
=============================================================================
