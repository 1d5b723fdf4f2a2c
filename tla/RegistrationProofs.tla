-------------------------- MODULE RegistrationProofs --------------------------
(***************************************************************************)
(* Proofs about what the host is told of an application, for any calls of   *)
(* main in any order and any host.json: the capabilities that main asked    *)
(* for, the functions it registered as they were at its calls, and one      *)
(* host.json, in a form that is normal and fits.                            *)
(***************************************************************************)
EXTENDS Application, HostConfigurationProofs, FiniteSetTheorems

\* Appending to a sequence, in the form the proofs below use it.
LEMMA AppendedEvent ==
    ASSUME NEW S, NEW s \in Seq(S), NEW e \in S
    PROVE  /\ Append(s, e) \in Seq(S) /\ Len(s) \in Nat
           /\ Len(Append(s, e)) = Len(s) + 1
           /\ \A k \in 1..Len(s) : k \in 1..Len(Append(s, e)) /\ Append(s, e)[k] = s[k]
           /\ \A k \in 1..Len(Append(s, e)) : k \in 1..Len(s) \/ Append(s, e)[k] = e
<1>1. Len(s) \in Nat /\ Len(Append(s, e)) = Len(s) + 1 /\ Append(s, e) \in Seq(S)
    BY LenProperties, AppendProperties
<1>2. /\ \A k \in 1..Len(s) : Append(s, e)[k] = s[k]
      /\ Append(s, e)[Len(s) + 1] = e
    BY AppendProperties
<1>3. 1..Len(Append(s, e)) = (1..Len(s)) \cup {Len(s) + 1}
    BY <1>1
<1> QED
    BY <1>1, <1>2, <1>3

-----------------------------------------------------------------------------
(* What the host is told: the capabilities and the configuration.           *)

AllCalls == UNION {Scenarios[s].calls : s \in DOMAIN Scenarios}
Entries == {Merge(c, [property |-> p]) : c \in AllCalls, p \in {"old", "new"}}
ProgramTypeOK ==
    /\ scenario \in DOMAIN Scenarios
    /\ property \in {"old", "new"}
    /\ program \in Seq(Entries)
    /\ DOMAIN told = {"capabilities", "functions", "failed", "rounds"}

\* The capabilities of the App are those of the middlewares used so far, of
\* the last where several advertise one.
UserOf(i, k) == program[i].call = "Use" /\ k \in DOMAIN Advertises[program[i].middleware]
LastUse(i, k) ==
    /\ i \in 1..Len(program) /\ UserOf(i, k)
    /\ \A j \in 1..Len(program) : UserOf(j, k) => j <= i
CapabilitiesMerged ==
    /\ \A k \in DOMAIN capabilities :
          \E i \in 1..Len(program) :
              LastUse(i, k) /\ capabilities[k] = Advertises[program[i].middleware][k]
    /\ \A i \in 1..Len(program) :
          program[i].call = "Use" =>
              DOMAIN Advertises[program[i].middleware] \subseteq DOMAIN capabilities

\* Nothing is advertised before main has handed over to Start, or changed after.
CapabilitiesTold ==
    told.capabilities # NoFields =>
        /\ stage = "serving"
        /\ told.capabilities = Merge(Merge(BaseCapabilities, capabilities),
                                     IF proxy THEN ProxyCapabilities ELSE NoFields)

CapabilitiesInv == ProgramTypeOK /\ CapabilitiesMerged /\ CapabilitiesTold

\* main has made no call and no capability is set.
LEMMA CapabilitiesInvInit == Init => CapabilitiesInv
<1> SUFFICES ASSUME Init PROVE CapabilitiesInv
    OBVIOUS
<1>1. /\ scenario \in DOMAIN Scenarios /\ property = "old"
      /\ program = <<>> /\ capabilities = NoFields
      /\ told = [capabilities |-> NoFields, functions |-> {}, failed |-> FALSE, rounds |-> 0]
    BY DEF Init, RegistrationInit
<1>2. <<>> \in Seq(Entries) /\ Len(<<>>) = 0 /\ DOMAIN NoFields = {}
    BY EmptySeq DEF NoFields
<1>3. /\ told.capabilities = NoFields
      /\ DOMAIN told = {"capabilities", "functions", "failed", "rounds"}
    BY <1>1
<1> QED
    BY <1>1, <1>2, <1>3
    DEF CapabilitiesInv, ProgramTypeOK, CapabilitiesMerged, CapabilitiesTold

\* A call that returns adds itself to the program.
LEMMA CallsReturn ==
    ASSUME CapabilitiesInv, NEW c \in Scenarios[scenario].calls, Call(c)
    PROVE  /\ told.capabilities = NoFields
           /\ UNCHANGED <<property, proxy, told>>
           /\ \/ program' = program /\ capabilities' = capabilities
              \/ /\ Returned(c)
                 /\ \/ capabilities' = capabilities
                       /\ (c.call # "Use" \/ c.middleware = "nil")
                    \/ capabilities' = Merge(capabilities, Advertises[c.middleware])
                       /\ c.call = "Use"
<1>1. stage = "main" /\ UNCHANGED <<property, proxy, told>>
    BY DEF Call
<1>2. told.capabilities = NoFields
    BY <1>1 DEF CapabilitiesInv, CapabilitiesTold
<1>3. CASE CallRegister(c)
    BY <1>1, <1>2, <1>3 DEF CallRegister, Registers, PanicsOut, registryVars
<1>4. CASE CallRegisterClientFactory(c)
    BY <1>1, <1>2, <1>4 DEF CallRegisterClientFactory, PanicsOut, registryVars
<1>5. CASE CallDurable(c)
    BY <1>1, <1>2, <1>5 DEF CallDurable, PanicsOut, registryVars
<1>6. CASE CallUse(c)
    BY <1>1, <1>2, <1>6 DEF CallUse, PanicsOut, registryVars
<1> QED
    BY <1>3, <1>4, <1>5, <1>6 DEF Call

\* Every call of main that returns merges its capabilities, after those before it.
LEMMA CallKeepsCapabilities ==
    ASSUME CapabilitiesInv, NEW c \in Scenarios[scenario].calls, Call(c), scenario' = scenario
    PROVE  CapabilitiesInv'
<1> USE DEF CapabilitiesInv
<1> DEFINE e == Merge(c, [property |-> property])
<1>0. PICK n : n = Len(program) + 1
    OBVIOUS
<1>1. told.capabilities = NoFields /\ UNCHANGED <<property, proxy, told>>
    BY CallsReturn
<1>2. CapabilitiesTold'
    BY <1>1 DEF CapabilitiesTold
<1>3. CASE program' = program /\ capabilities' = capabilities
  <2>1. ProgramTypeOK'
      BY <1>1, <1>3 DEF ProgramTypeOK
  <2>2. CapabilitiesMerged'
      BY <1>3 DEF CapabilitiesMerged, LastUse, UserOf
  <2> QED
      BY <1>2, <2>1, <2>2
<1>4. CASE Returned(c)
  <2>1. c \in AllCalls /\ "call" \in DOMAIN c /\ (c.call = "Use" => "middleware" \in DOMAIN c)
    <3>1. c \in AllCalls /\ CallOK(c)
        BY ScenariosAssumption DEF ProgramTypeOK, AllCalls
    <3> QED
        BY <3>1 DEF CallOK
  <2>2. e \in Entries
      BY <2>1 DEF Entries, ProgramTypeOK
  <2>3. e.call = c.call /\ (c.call = "Use" => e.middleware = c.middleware)
      BY <2>1 DEF Merge
  <2>4. program' = Append(program, e) /\ program \in Seq(Entries)
      BY <1>4 DEF Returned, ProgramTypeOK
  <2> HIDE DEF e
  <2>5. /\ program' \in Seq(Entries) /\ Len(program) \in Nat /\ Len(program') = n
        /\ \A k \in 1..Len(program) : k \in 1..n /\ program'[k] = program[k]
        /\ \A k \in 1..n : k \in 1..Len(program) \/ k = n
        /\ program'[n] = e /\ n \in 1..n
    <3> HIDE DEF Entries
    <3>1. /\ program' \in Seq(Entries) /\ Len(program) \in Nat /\ Len(program') = n
          /\ \A k \in 1..Len(program) : program'[k] = program[k]
          /\ program'[n] = e
        BY <1>0, <2>2, <2>4, AppendProperties, LenProperties
    <3> QED
        BY <1>0, <3>1
  <2>6. ProgramTypeOK'
      BY <1>1, <2>5 DEF ProgramTypeOK
  <2>7. CASE capabilities' = capabilities /\ (c.call # "Use" \/ c.middleware = "nil")
    <3>1. \A k : ~UserOf(n, k)'
        BY <2>3, <2>5, <2>7, NilAssumption DEF UserOf, NoFields
    <3>2. e.call = "Use" => DOMAIN Advertises[e.middleware] = {}
        BY <2>3, <2>7, NilAssumption DEF NoFields
    <3>3. \A i \in 1..Len(program), k \in DOMAIN capabilities : LastUse(i, k) => LastUse(i, k)'
        BY <2>5, <3>1 DEF LastUse, UserOf
    <3>4. ASSUME NEW k \in DOMAIN capabilities
          PROVE  \E i \in 1..Len(program') :
                    LastUse(i, k)' /\ capabilities'[k] = Advertises[program'[i].middleware][k]
      <4>1. PICK i \in 1..Len(program) :
               LastUse(i, k) /\ capabilities[k] = Advertises[program[i].middleware][k]
          BY DEF CapabilitiesMerged
      <4>2. LastUse(i, k)'
          BY <3>3, <4>1
      <4>3. i \in 1..Len(program') /\ program'[i] = program[i] /\ capabilities' = capabilities
          BY <2>5, <2>7, <4>1
      <4> QED
          BY <4>1, <4>2, <4>3
    <3>5. ASSUME NEW i \in 1..Len(program'), program'[i].call = "Use"
          PROVE  DOMAIN Advertises[program'[i].middleware] \subseteq DOMAIN capabilities'
        BY <2>5, <2>7, <3>2, <3>5 DEF CapabilitiesMerged
    <3>6. CapabilitiesMerged'
        BY <2>7, <3>4, <3>5 DEF CapabilitiesMerged
    <3> QED
        BY <1>2, <2>6, <3>6
  <2>8. CASE /\ capabilities' = Merge(capabilities, Advertises[c.middleware])
             /\ c.call = "Use"
    <3> DEFINE given == Advertises[c.middleware]
    <3>1. /\ DOMAIN capabilities' = DOMAIN capabilities \cup DOMAIN given
          /\ \A k \in DOMAIN given : capabilities'[k] = given[k]
          /\ \A k \in DOMAIN capabilities : k \notin DOMAIN given => capabilities'[k] = capabilities[k]
        BY <2>8 DEF Merge
    <3>2. program'[n].call = "Use" /\ program'[n].middleware = c.middleware
        BY <2>3, <2>5, <2>8
    <3> HIDE DEF given
    <3>3. ASSUME NEW k \in DOMAIN given
          PROVE  LastUse(n, k)' /\ capabilities'[k] = Advertises[program'[n].middleware][k]
        BY <2>5, <3>1, <3>2 DEF LastUse, UserOf, given
    <3>4. ASSUME NEW k \in DOMAIN capabilities, k \notin DOMAIN given
          PROVE  \E i \in 1..Len(program') :
                    LastUse(i, k)' /\ capabilities'[k] = Advertises[program'[i].middleware][k]
      <4>1. PICK i \in 1..Len(program) :
               LastUse(i, k) /\ capabilities[k] = Advertises[program[i].middleware][k]
          BY DEF CapabilitiesMerged
      <4>2. ~UserOf(n, k)'
          BY <3>2, <3>4 DEF UserOf, given
      <4>3. LastUse(i, k)'
          BY <2>5, <4>1, <4>2 DEF LastUse, UserOf
      <4> QED
          BY <2>5, <3>1, <3>4, <4>1, <4>3
    <3>5. \A i \in 1..Len(program') : program'[i].call = "Use" =>
              DOMAIN Advertises[program'[i].middleware] \subseteq DOMAIN capabilities'
        BY <2>5, <3>1, <3>2 DEF CapabilitiesMerged, given
    <3>6. CapabilitiesMerged'
        BY <2>5, <3>1, <3>3, <3>4, <3>5 DEF CapabilitiesMerged
    <3> QED
        BY <1>2, <2>6, <3>6
  <2> QED
      BY <1>4, <2>7, <2>8, CallsReturn, <1>3
<1> QED
    BY <1>3, <1>4, CallsReturn

\* Every step keeps the merge, and what handleWorkerInitRequest says of it.
LEMMA CapabilitiesInvStep ==
    ASSUME CapabilitiesInv, [Next]_applicationVars
    PROVE  CapabilitiesInv'
<1> USE DEF CapabilitiesInv
<1>1. CASE UNCHANGED <<scenario, registrationVars>>
    BY <1>1 DEF registrationVars, registryVars, ProgramTypeOK, CapabilitiesMerged, LastUse,
                UserOf, CapabilitiesTold
<1>2. CASE Main
  <2>1. scenario' = scenario
      BY <1>2 DEF Main
  <2>2. ASSUME NEW c \in Scenarios[scenario].calls, Call(c) PROVE CapabilitiesInv'
      BY <2>1, <2>2, CallKeepsCapabilities
  <2>3. CASE CallerMutates
    <3>1. property' = "new" /\ UNCHANGED <<program, stage, capabilities, proxy, told>>
        BY <2>3 DEF CallerMutates, registryVars
    <3> QED
        BY <2>1, <3>1
        DEF ProgramTypeOK, CapabilitiesMerged, LastUse, UserOf, CapabilitiesTold
  <2>4. CASE Start
    <3>1. /\ stage = "main" /\ stage' = "serving"
          /\ UNCHANGED <<program, property, capabilities, told>>
        BY <2>4 DEF Start, registryVars
    <3>2. told.capabilities = NoFields
        BY <3>1 DEF CapabilitiesTold
    <3> QED
        BY <2>1, <3>1, <3>2
        DEF ProgramTypeOK, CapabilitiesMerged, LastUse, UserOf, CapabilitiesTold
  <2> QED
      BY <1>2, <2>2, <2>3, <2>4 DEF Main
<1>3. CASE Control
  <2>1. scenario' = scenario
      BY <1>3 DEF Control
  <2>2. UNCHANGED <<program, stage, property, capabilities, proxy>>
      BY <1>3 DEF Control, HandleWorkerInit, HandleFunctionsMetadata, HandleFunctionLoad,
                  registryVars
  <2>3. \/ told' = told
        \/ \E r, f, s : told' = [told EXCEPT !.rounds = r, !.failed = f, !.functions = s]
        \/ /\ stage = "serving"
           /\ told' = [told EXCEPT !.capabilities =
                 Merge(Merge(BaseCapabilities, capabilities),
                       IF proxy THEN ProxyCapabilities ELSE NoFields)]
    <3>1. CASE HandleWorkerInit
        BY <3>1 DEF HandleWorkerInit
    <3>2. CASE HandleFunctionsMetadata
        BY <3>2 DEF HandleFunctionsMetadata
    <3>3. ASSUME NEW f, HandleFunctionLoad(f) PROVE told' = told
        BY <3>3 DEF HandleFunctionLoad
    <3> QED
        BY <1>3, <3>1, <3>2, <3>3 DEF Control
  <2>4. CASE told' = told
      BY <2>1, <2>2, <2>4
      DEF ProgramTypeOK, CapabilitiesMerged, LastUse, UserOf, CapabilitiesTold
  <2>5. CASE \E r, f, s : told' = [told EXCEPT !.rounds = r, !.failed = f, !.functions = s]
    <3>1. DOMAIN told' = DOMAIN told /\ told'.capabilities = told.capabilities
        BY <2>5 DEF ProgramTypeOK
    <3> QED
        BY <2>1, <2>2, <3>1
        DEF ProgramTypeOK, CapabilitiesMerged, LastUse, UserOf, CapabilitiesTold
  <2>6. CASE /\ stage = "serving"
             /\ told' = [told EXCEPT !.capabilities =
                   Merge(Merge(BaseCapabilities, capabilities),
                         IF proxy THEN ProxyCapabilities ELSE NoFields)]
    <3>1. /\ DOMAIN told' = DOMAIN told
          /\ told'.capabilities = Merge(Merge(BaseCapabilities, capabilities),
                                        IF proxy THEN ProxyCapabilities ELSE NoFields)
        BY <2>6 DEF ProgramTypeOK
    <3> QED
        BY <2>1, <2>2, <2>6, <3>1
        DEF ProgramTypeOK, CapabilitiesMerged, LastUse, UserOf, CapabilitiesTold
  <2> QED
      BY <2>3, <2>4, <2>5, <2>6
<1>4. CASE Site \/ Invocation \/ Answers \/ Host \/ UNCHANGED applicationVars
    BY <1>1, <1>4 DEF Site, Invocation, Answers, Host, applicationVars
<1> QED
    BY <1>2, <1>3, <1>4 DEF Next

\* app.Use and handleWorkerInitRequest: for any calls of main in any order, a
\* capability is the proxy's, else that of the last middleware used that
\* advertises it, else the worker's own.
THEOREM CapabilitiesAreThoseUsed == Spec => []CapabilitiesAsUsed
<1>1. ASSUME CapabilitiesInv PROVE CapabilitiesAsUsed
  <2> USE <1>1 DEF CapabilitiesInv
  <2>1. DOMAIN program = 1..Len(program) /\ Len(program) \in Nat
    <3> HIDE DEF Entries
    <3> QED
        BY LenProperties DEF ProgramTypeOK
  <2> DEFINE users(k) == {i \in DOMAIN program :
                 program[i].call = "Use" /\ k \in DOMAIN Advertises[program[i].middleware]}
             last(k) == CHOOSE i \in users(k) : \A j \in users(k) : j <= i
  <2>2. ASSUME NEW k, NEW i, LastUse(i, k)
        PROVE  users(k) # {} /\ last(k) = i
    <3>1. i \in users(k) /\ \A j \in users(k) : j <= i
        BY <2>1, <2>2 DEF LastUse, UserOf
    <3>2. \A j \in users(k) : j \in Nat
        BY <2>1
    <3> HIDE DEF users
    <3>3. last(k) \in users(k) /\ \A j \in users(k) : j <= last(k)
        BY <3>1
    <3> QED
        BY <3>1, <3>2, <3>3
  <2>3. ASSUME NEW k, users(k) # {} PROVE k \in DOMAIN capabilities
      BY <2>1, <2>3 DEF CapabilitiesMerged
  <2>4. ASSUME NEW k \in DOMAIN capabilities
        PROVE  users(k) # {} /\ capabilities[k] = Advertises[program[last(k)].middleware][k]
    <3>1. PICK i \in 1..Len(program) :
             LastUse(i, k) /\ capabilities[k] = Advertises[program[i].middleware][k]
        BY DEF CapabilitiesMerged
    <3>2. users(k) # {} /\ last(k) = i
        BY <2>2, <3>1
    <3> QED
        BY <3>1, <3>2
  <2> HIDE DEF users, last
  <2>5. ASSUME told.capabilities # NoFields, NEW k \in DOMAIN told.capabilities
        PROVE  told.capabilities[k] =
                  IF proxy /\ k \in DOMAIN ProxyCapabilities THEN ProxyCapabilities[k]
                  ELSE IF users(k) # {} THEN Advertises[program[last(k)].middleware][k]
                  ELSE BaseCapabilities[k]
    <3> DEFINE own == Merge(BaseCapabilities, capabilities)
               all == IF proxy THEN ProxyCapabilities ELSE NoFields
    <3>1. told.capabilities = Merge(own, all)
        BY <2>5 DEF CapabilitiesTold
    <3>2. /\ DOMAIN Merge(own, all) = DOMAIN own \cup DOMAIN all
          /\ \A x \in DOMAIN own \cup DOMAIN all :
                Merge(own, all)[x] = IF x \in DOMAIN all THEN all[x] ELSE own[x]
        BY DEF Merge
    <3>3. /\ DOMAIN own = DOMAIN BaseCapabilities \cup DOMAIN capabilities
          /\ \A x \in DOMAIN own :
                own[x] = IF x \in DOMAIN capabilities THEN capabilities[x]
                         ELSE BaseCapabilities[x]
        BY DEF Merge
    <3> HIDE DEF own
    <3>4. CASE proxy /\ k \in DOMAIN ProxyCapabilities
        BY <3>1, <3>2, <3>4
    <3>5. CASE ~(proxy /\ k \in DOMAIN ProxyCapabilities)
      <4>1. k \notin DOMAIN all
          BY <3>5 DEF NoFields
      <4>2. k \in DOMAIN own /\ told.capabilities[k] = own[k]
          BY <2>5, <3>1, <3>2, <4>1
      <4>3. CASE users(k) # {}
          BY <2>3, <2>4, <3>3, <3>5, <4>2, <4>3
      <4>4. CASE users(k) = {}
          BY <2>4, <3>3, <3>5, <4>2, <4>4
      <4> QED
          BY <4>3, <4>4
    <3> QED
        BY <3>4, <3>5
  <2> QED
      BY <2>5 DEF CapabilitiesAsUsed, users, last
<1> QED
    BY <1>1, CapabilitiesInvInit, CapabilitiesInvStep, PTL DEF Spec

\* What the once-only snapshot may hold, and that every answer is it.
AllDisks == UNION {Scenarios[s].disks : s \in DOMAIN Scenarios}
Outcomes == {NotRead} \cup {readHostConfiguration(d) : d \in AllDisks}
SnapshotInv ==
    /\ scenario \in DOMAIN Scenarios /\ disk \in AllDisks /\ snapshot \in Outcomes
    /\ answers \in Seq(Outcomes)
    /\ \A i \in 1..Len(answers) : answers[i] # NotRead => answers[i] = snapshot

\* host.json has not been read before the first WorkerInit.
LEMMA SnapshotInvInit == Init => SnapshotInv
<1> SUFFICES ASSUME Init PROVE SnapshotInv
    OBVIOUS
<1>1. /\ scenario \in DOMAIN Scenarios /\ disk \in Scenarios[scenario].disks
      /\ snapshot = NotRead /\ answers = <<>>
    BY DEF Init, ConfigurationInit
<1>2. disk \in AllDisks /\ snapshot \in Outcomes
    BY <1>1 DEF AllDisks, Outcomes
<1> HIDE DEF Outcomes
<1> QED
    BY <1>1, <1>2, EmptySeq DEF SnapshotInv

\* The first answer about host.json is the only one, whatever is deployed since.
LEMMA SnapshotInvStep ==
    ASSUME SnapshotInv, [Next]_applicationVars
    PROVE  SnapshotInv'
<1>1. CASE UNCHANGED <<scenario, configurationVars>>
    BY <1>1 DEF SnapshotInv, configurationVars
<1>2. ASSUME NEW asked, AnswerConfiguration(asked), scenario' = scenario PROVE SnapshotInv'
  <2> DEFINE e == IF asked THEN Capture ELSE NotRead
  <2>1. /\ disk' = disk /\ answers' = Append(answers, e)
        /\ snapshot' = IF asked THEN Capture ELSE snapshot
      BY <1>2 DEF AnswerConfiguration
  <2>2. Capture \in Outcomes /\ (snapshot # NotRead => Capture = snapshot)
      BY DEF Capture, Outcomes, SnapshotInv
  <2>3. /\ e \in Outcomes /\ snapshot' \in Outcomes
        /\ e # NotRead => e = snapshot'
        /\ snapshot # NotRead => snapshot' = snapshot
    <3>1. NotRead \in Outcomes
        BY DEF Outcomes
    <3> QED
        BY <2>1, <2>2, <3>1 DEF SnapshotInv
  <2>4. answers \in Seq(Outcomes)
      BY DEF SnapshotInv
  <2> HIDE DEF e, Outcomes
  <2>5. /\ answers' \in Seq(Outcomes) /\ Len(answers) \in Nat
        /\ \A k \in 1..Len(answers) : answers'[k] = answers[k]
        /\ \A k \in 1..Len(answers') : k \in 1..Len(answers) \/ answers'[k] = e
      BY <2>1, <2>3, <2>4, AppendedEvent
  <2> QED
      BY <1>2, <2>1, <2>3, <2>5 DEF SnapshotInv
<1>3. ASSUME NEW d \in Scenarios[scenario].disks, Deploy(d), scenario' = scenario
      PROVE  SnapshotInv'
    BY <1>3 DEF Deploy, SnapshotInv, AllDisks
<1>4. CASE Main \/ Invocation \/ Answers \/ Host \/ UNCHANGED applicationVars
    BY <1>1, <1>4 DEF Main, Invocation, Answers, Host, applicationVars
<1>5. CASE Control
    BY <1>1, <1>2, <1>5 DEF Control
<1>6. CASE Site
    BY <1>3, <1>6 DEF Site
<1> QED
    BY <1>4, <1>5, <1>6 DEF Next

\* host_configuration.go: however the site is redeployed between two requests,
\* every answer that carries host.json carries the same.
THEOREM ConfigurationIsReadOnce == Spec => []ReadOnce
<1>1. ASSUME SnapshotInv PROVE ReadOnce
  <2>1. DOMAIN answers = 1..Len(answers)
    <3> HIDE DEF Outcomes
    <3> QED
        BY <1>1, LenProperties DEF SnapshotInv
  <2> QED
      BY <1>1, <2>1 DEF SnapshotInv, ReadOnce
<1> QED
    BY <1>1, SnapshotInvInit, SnapshotInvStep, PTL DEF Spec

\* normalizeHostConfiguration: however the site is redeployed, an answer with
\* host.json fits the limit, is the same as every other, and is what the host
\* gets when it normalizes it again.
THEOREM ConfigurationIsFrozen == Spec => []ConfigurationFrozen
<1>1. ASSUME NEW d \in AllDisks, Good(readHostConfiguration(d))
      PROVE  LET r == readHostConfiguration(d) IN
             Bytes(r.content) <= MaxBytes /\ normalizeHostConfiguration(r.content) = r
  <2> DEFINE decoded == decodeHostConfiguration(d.units, d.bom)
             r == readHostConfiguration(d)
  <2>1. d.units \in Seq(STRING)
      BY ScenariosAssumption DEF AllDisks
  <2>2. decoded.content \in Seq(STRING \cup {"astral"})
      BY <2>1, DecodedIsText
  <2>3. /\ ~Good(NotRead)
        /\ \A reason \in {"AppDirectoryNotSet", "ReadFailed"} : ~Good(Problem(reason))
      BY DEF Good, NotRead, Problem, Outcome
  <2>4. ~Good(Problem(OpenProblem(d)))
      BY DEF Good, Problem, Outcome, OpenProblem
  <2>5. r = normalizeHostConfiguration(decoded.content)
      BY <1>1, <2>3, <2>4 DEF readHostConfiguration
  <2> HIDE DEF decoded, r
  <2>6. Bytes(r.content) <= MaxBytes /\ normalizeHostConfiguration(r.content) = r
      BY <1>1, <2>2, <2>5, NormalFormIsKept DEF r
  <2> QED
      BY <2>6 DEF r
<1>2. ASSUME SnapshotInv PROVE ConfigurationFrozen
  <2>1. DOMAIN answers = 1..Len(answers)
    <3> HIDE DEF Outcomes
    <3> QED
        BY <1>2, LenProperties DEF SnapshotInv
  <2>2. ReadOnce
      BY <1>2, <2>1 DEF SnapshotInv, ReadOnce
  <2>3. ASSUME NEW i \in DOMAIN answers, Good(answers[i])
        PROVE  /\ Bytes(answers[i].content) <= MaxBytes
               /\ normalizeHostConfiguration(answers[i].content) = answers[i]
    <3>1. answers[i] # NotRead
        BY <2>3 DEF Good, NotRead, Problem, Outcome
    <3>2. answers[i] = snapshot /\ snapshot \in Outcomes
        BY <1>2, <2>1, <3>1 DEF SnapshotInv
    <3>3. PICK d \in AllDisks : answers[i] = readHostConfiguration(d)
        BY <3>1, <3>2 DEF Outcomes
    <3> QED
        BY <1>1, <2>3, <3>3
  <2> QED
      BY <2>2, <2>3 DEF ConfigurationFrozen
<1> QED
    BY <1>2, SnapshotInvInit, SnapshotInvStep, PTL DEF Spec

-----------------------------------------------------------------------------
(* Options.                                                                 *)

FunctionParts == {"name", "type", "handler", "retry", "bindings", "factory"}
BindingParts == {"name", "type", "direction", "cfg", "omit", "generic"}
WellFormed(rf) ==
    /\ DOMAIN rf = FunctionParts
    /\ \E S : rf.bindings \in Seq(S)
    /\ 1 \in DOMAIN rf.bindings
    /\ \A k \in DOMAIN rf.bindings : DOMAIN rf.bindings[k] = BindingParts

\* What no option changes.
SameFunction(r, rf) ==
    /\ r.name = rf.name /\ r.type = rf.type /\ r.handler = rf.handler /\ r.factory = rf.factory
    /\ LET b == r.bindings[1]  b0 == rf.bindings[1] IN
       /\ b.name = b0.name /\ b.type = b0.type /\ b.direction = b0.direction
       /\ b.omit = b0.omit /\ b.generic = b0.generic

\* Appending anything to a sequence of anything.
LEMMA AppendedAny ==
    ASSUME NEW S, NEW s \in Seq(S), NEW e
    PROVE  /\ Append(s, e) \in Seq(S \cup {e}) /\ Len(s) \in Nat
           /\ Len(Append(s, e)) = Len(s) + 1
           /\ \A k \in 1..Len(s) : k \in 1..Len(Append(s, e)) /\ Append(s, e)[k] = s[k]
           /\ \A k \in 1..Len(Append(s, e)) : k \in 1..Len(s) \/ Append(s, e)[k] = e
<1>1. s \in Seq(S \cup {e})
    BY SeqMonotonic
<1> QED
    BY <1>1, AppendedEvent

\* One option: a function stays one, and the configuration of its trigger
\* changes in the fields that the option sets.
LEMMA OptionKeeps ==
    ASSUME NEW rf, NEW o, WellFormed(rf), o.option = "Append" => DOMAIN o.binding = BindingParts
    PROVE  LET r == ApplyOption(rf, o)
               cfg == rf.bindings[1].cfg
           IN /\ WellFormed(r) /\ SameFunction(r, rf)
              /\ DOMAIN r.bindings[1].cfg = DOMAIN cfg
              /\ \A f \in DOMAIN cfg :
                    r.bindings[1].cfg[f] = IF Sets(o, f) THEN OptionValue(o) ELSE cfg[f]
<1> DEFINE r == ApplyOption(rf, o)
           bs == rf.bindings
           cfg == bs[1].cfg
           Kept(q) ==
              /\ WellFormed(q) /\ SameFunction(q, rf)
              /\ DOMAIN q.bindings[1].cfg = DOMAIN cfg
              /\ \A f \in DOMAIN cfg :
                    q.bindings[1].cfg[f] = IF Sets(o, f) THEN OptionValue(o) ELSE cfg[f]
<1>1. PICK S : bs \in Seq(S)
    BY DEF WellFormed
<1>2. /\ DOMAIN bs = 1..Len(bs) /\ Len(bs) \in Nat /\ 1 \in 1..Len(bs)
      /\ \A k \in 1..Len(bs) : DOMAIN bs[k] = BindingParts
    BY <1>1, LenProperties DEF WellFormed
<1>3. ASSUME NEW e, DOMAIN e = BindingParts
      PROVE  LET a == Append(bs, e) IN
             /\ (\E T : a \in Seq(T)) /\ 1 \in DOMAIN a /\ a[1] = bs[1]
             /\ \A k \in DOMAIN a : DOMAIN a[k] = BindingParts
  <2> DEFINE a == Append(bs, e)
  <2>1. /\ a \in Seq(S \cup {e}) /\ 1 \in 1..Len(a) /\ a[1] = bs[1]
        /\ \A k \in 1..Len(bs) : a[k] = bs[k]
        /\ \A k \in 1..Len(a) : k \in 1..Len(bs) \/ a[k] = e
      BY <1>1, <1>2, AppendedAny
  <2>2. DOMAIN a = 1..Len(a)
      BY <2>1, LenProperties
  <2>3. \A k \in 1..Len(a) : DOMAIN a[k] = BindingParts
    <3> HIDE DEF a
    <3> QED
        BY <1>2, <1>3, <2>1
  <2> QED
      BY <2>1, <2>2, <2>3
<1>4. ASSUME NEW q, NEW b, DOMAIN q = FunctionParts, q.name = rf.name, q.type = rf.type,
             q.handler = rf.handler, q.factory = rf.factory,
             \E T : q.bindings \in Seq(T), 1 \in DOMAIN q.bindings, q.bindings[1] = bs[1],
             \A k \in DOMAIN q.bindings : DOMAIN q.bindings[k] = BindingParts,
             \A f : ~Sets(o, f)
      PROVE  Kept(q)
    BY <1>2, <1>4 DEF WellFormed, SameFunction
<1>5. CASE o.option = "WithRetry"
  <2>1. r = [rf EXCEPT !.retry = o.value]
      BY <1>5 DEF ApplyOption
  <2>2. /\ DOMAIN r = FunctionParts /\ r.name = rf.name /\ r.type = rf.type
        /\ r.handler = rf.handler /\ r.factory = rf.factory /\ r.bindings = bs
      BY <2>1 DEF WellFormed, FunctionParts
  <2>3. \A f : ~Sets(o, f)
      BY <1>5 DEF Sets
  <2> HIDE DEF r, Kept
  <2>4. Kept(r)
      BY <1>1, <1>2, <1>4, <2>2, <2>3
  <2> QED
      BY <2>4 DEF Kept, r
<1>6. CASE o.option \in {"ClientInput", "Append"}
  <2> DEFINE e == IF o.option = "ClientInput" THEN DurableClientBinding ELSE o.binding
  <2>0. DOMAIN e = BindingParts
      BY <1>6 DEF DurableClientBinding, ToBinding, BindingParts
  <2>1. r = [rf EXCEPT !.bindings = Append(@, e)]
      BY <1>6 DEF ApplyOption
  <2> HIDE DEF e
  <2>2. /\ DOMAIN r = FunctionParts /\ r.name = rf.name /\ r.type = rf.type
        /\ r.handler = rf.handler /\ r.factory = rf.factory /\ r.bindings = Append(bs, e)
      BY <2>1 DEF WellFormed, FunctionParts
  <2>3. \A f : ~Sets(o, f)
      BY <1>6 DEF Sets
  <2>4. \E T : Append(bs, e) \in Seq(T)
      BY <1>3, <2>0
  <2>5. /\ 1 \in DOMAIN Append(bs, e) /\ Append(bs, e)[1] = bs[1]
        /\ \A k \in DOMAIN Append(bs, e) : DOMAIN Append(bs, e)[k] = BindingParts
      BY <1>3, <2>0
  <2> HIDE DEF r, Kept
  <2>6. Kept(r)
      BY <1>4, <2>2, <2>3, <2>4, <2>5
  <2> QED
      BY <2>6 DEF Kept, r
<1>7. CASE o.option \notin {"WithRetry", "ClientInput", "Append"}
  <2> DEFINE b == WithOption(bs[1], o)
  <2>1. r = [rf EXCEPT !.bindings = [bs EXCEPT ![1] = b]]
      BY <1>7 DEF ApplyOption
  <2>2. /\ DOMAIN r = FunctionParts /\ r.name = rf.name /\ r.type = rf.type
        /\ r.handler = rf.handler /\ r.factory = rf.factory
        /\ r.bindings = [bs EXCEPT ![1] = b]
      BY <2>1 DEF WellFormed, FunctionParts
  <2>3. /\ DOMAIN b = BindingParts
        /\ b.name = bs[1].name /\ b.type = bs[1].type /\ b.direction = bs[1].direction
        /\ b.omit = bs[1].omit /\ b.generic = bs[1].generic
        /\ DOMAIN b.cfg = DOMAIN cfg
        /\ \A f \in DOMAIN cfg :
              b.cfg[f] = IF f \in OptionFields(o) THEN OptionValue(o) ELSE cfg[f]
      BY <1>2 DEF WithOption, BindingParts
  <2> HIDE DEF b, r
  <2>4. /\ (\E T : r.bindings \in Seq(T)) /\ 1 \in DOMAIN r.bindings /\ r.bindings[1] = b
        /\ \A k \in DOMAIN r.bindings : k = 1 \/ DOMAIN r.bindings[k] = BindingParts
    <3>1. bs \in Seq(S \cup {b}) /\ b \in S \cup {b}
        BY <1>1, SeqMonotonic
    <3>2. [bs EXCEPT ![1] = b] \in Seq(S \cup {b})
        BY <1>2, <3>1, ExceptSeq
    <3> QED
        BY <1>2, <2>2, <3>2
  <2>5. \A f : Sets(o, f) <=> f \in OptionFields(o)
      BY <1>7 DEF Sets
  <2>6. Kept(r)
      BY <2>2, <2>3, <2>4, <2>5 DEF WellFormed, SameFunction
  <2> HIDE DEF Kept
  <2> QED
      BY <2>6 DEF Kept, r
<1> QED
    BY <1>5, <1>6, <1>7

\* The function after each of its options.
IsApplied(after, rf, opts) ==
    /\ after[0] = rf
    /\ \A k \in 1..Len(opts) : after[k] = ApplyOption(after[k - 1], opts[k])

\* registerFunction: the options run one after the other.
LEMMA AppliedStepwise ==
    ASSUME NEW rf, NEW opts, IsList(opts)
    PROVE  \E after : IsApplied(after, rf, opts) /\ Applied(rf, opts) = after[Len(opts)]
<1> DEFINE n == Len(opts)
           G(r, k) == ApplyOption(r, opts[k])
           Defined(m, f) == f = [k \in 0..m |-> IF k = 0 THEN rf ELSE G(f[k - 1], k)]
           P == {m \in Nat : \E f : Defined(m, f)}
<1>1. n \in Nat
    BY DEF IsList
<1> HIDE DEF n, G
<1>2. 0 \in P
  <2>1. Defined(0, [k \in 0..0 |-> rf])
      OBVIOUS
  <2> QED
      BY <2>1
<1>3. ASSUME NEW m \in Nat, m \in P PROVE m + 1 \in P
  <2>1. PICK f : Defined(m, f)
      BY <1>3
  <2> DEFINE g == [k \in 0..(m + 1) |-> IF k = m + 1 THEN G(f[m], m + 1) ELSE f[k]]
  <2>2. /\ \A k \in 0..m : k # m + 1 /\ k \in 0..(m + 1) /\ (k # 0 => k - 1 \in 0..m)
        /\ \A k \in 0..(m + 1) : k \in 0..m \/ k = m + 1
        /\ m \in 0..m /\ (m + 1) - 1 = m /\ m + 1 # 0
      OBVIOUS
  <2>3. \A k \in 0..m : g[k] = f[k]
      BY <2>2
  <2>4. g[m + 1] = G(f[m], m + 1)
      BY <2>2
  <2>5. \A k \in 0..m : f[k] = IF k = 0 THEN rf ELSE G(f[k - 1], k)
      BY <2>1
  <2>6. \A k \in 0..(m + 1) : g[k] = IF k = 0 THEN rf ELSE G(g[k - 1], k)
    <3> HIDE DEF g, Defined
    <3> QED
        BY <2>2, <2>3, <2>4, <2>5
  <2>7. DOMAIN g = 0..(m + 1) /\ g = [k \in DOMAIN g |-> g[k]]
      OBVIOUS
  <2>8. Defined(m + 1, g)
    <3> HIDE DEF g
    <3> QED
        BY <2>6, <2>7
  <2> HIDE DEF g, Defined
  <2> QED
      BY <2>8
<1>4. n \in P
  <2> HIDE DEF P
  <2>1. Nat \subseteq P
      BY <1>2, <1>3, Induction
  <2> QED
      BY <1>1, <2>1
<1>5. PICK f : f = [k \in 0..n |-> IF k = 0 THEN rf ELSE G(f[k - 1], k)]
    BY <1>4
<1> DEFINE after == CHOOSE g : g = [k \in 0..n |-> IF k = 0 THEN rf ELSE G(g[k - 1], k)]
<1>6. after = [k \in 0..n |-> IF k = 0 THEN rf ELSE G(after[k - 1], k)]
    BY <1>5
<1>7. Applied(rf, opts) = after[n]
    BY DEF Applied, n, G
<1> HIDE DEF after
<1>8. after[0] = rf /\ \A k \in 1..n : after[k] = G(after[k - 1], k)
  <2>1. 0 \in 0..n /\ \A k \in 1..n : k \in 0..n /\ k # 0
      BY <1>1
  <2> QED
      BY <1>6, <2>1
<1>9. IsApplied(after, rf, opts)
    BY <1>8 DEF IsApplied, n, G
<1> QED
    BY <1>7, <1>9 DEF n

\* The configuration that the first k options leave: in each field the value of
\* the last of them that sets it, else what was there.
Configured(opts, k, cfg, cfg0) ==
    /\ DOMAIN cfg = DOMAIN cfg0
    /\ \A f \in DOMAIN cfg0 :
          /\ (\A i \in 1..k : ~Sets(opts[i], f)) => cfg[f] = cfg0[f]
          /\ \A i \in 1..k :
                Sets(opts[i], f) /\ (\A j \in 1..k : Sets(opts[j], f) => j <= i)
                => cfg[f] = OptionValue(opts[i])

\* One more option.
LEMMA ConfiguredOnce ==
    ASSUME NEW opts, NEW k \in Nat, NEW cfg0, NEW cfg, Configured(opts, k, cfg, cfg0),
           NEW next, DOMAIN next = DOMAIN cfg,
           \A f \in DOMAIN cfg : next[f] = IF Sets(opts[k + 1], f) THEN OptionValue(opts[k + 1])
                                          ELSE cfg[f]
    PROVE  Configured(opts, k + 1, next, cfg0)
<1>1. /\ k + 1 \in 1..(k + 1) /\ \A i \in 1..k : i \in 1..(k + 1) /\ ~(k + 1 <= i)
      /\ \A i \in 1..(k + 1) : i = k + 1 \/ i \in 1..k
    OBVIOUS
<1>2. ASSUME NEW f \in DOMAIN cfg0
      PROVE  /\ (\A i \in 1..(k + 1) : ~Sets(opts[i], f)) => next[f] = cfg0[f]
             /\ \A i \in 1..(k + 1) :
                   Sets(opts[i], f) /\ (\A j \in 1..(k + 1) : Sets(opts[j], f) => j <= i)
                   => next[f] = OptionValue(opts[i])
  <2>1. CASE Sets(opts[k + 1], f)
      BY <1>1, <2>1 DEF Configured
  <2>2. CASE ~Sets(opts[k + 1], f)
    <3>1. next[f] = cfg[f]
        BY <2>2 DEF Configured
    <3>2. ASSUME NEW i \in 1..(k + 1), Sets(opts[i], f),
                 \A j \in 1..(k + 1) : Sets(opts[j], f) => j <= i
          PROVE  next[f] = OptionValue(opts[i])
        BY <1>1, <2>2, <3>1, <3>2 DEF Configured
    <3>3. (\A i \in 1..(k + 1) : ~Sets(opts[i], f)) => next[f] = cfg0[f]
        BY <1>1, <3>1 DEF Configured
    <3> QED
        BY <3>2, <3>3
  <2> QED
      BY <2>1, <2>2
<1> QED
    BY <1>2 DEF Configured

\* registerFunction: the options leave a function's identity alone, and each
\* field of its trigger has the value of the last option that sets it.
LEMMA AppliedKeeps ==
    ASSUME NEW rf, NEW opts, IsList(opts), WellFormed(rf),
           \A i \in 1..Len(opts) :
               opts[i].option = "Append" => DOMAIN opts[i].binding = BindingParts
    PROVE  LET r == Applied(rf, opts) IN
           /\ WellFormed(r) /\ SameFunction(r, rf)
           /\ Configured(opts, Len(opts), r.bindings[1].cfg, rf.bindings[1].cfg)
<1> DEFINE n == Len(opts)
           cfg0 == rf.bindings[1].cfg
           Fine(r, k) == /\ WellFormed(r) /\ SameFunction(r, rf)
                         /\ Configured(opts, k, r.bindings[1].cfg, cfg0)
<1>1. n \in Nat
    BY DEF IsList
<1>2. PICK after : IsApplied(after, rf, opts) /\ Applied(rf, opts) = after[n]
    BY AppliedStepwise
<1>2a. /\ after[0] = rf
       /\ \A k \in 1..n : after[k] = ApplyOption(after[k - 1], opts[k])
    BY <1>2 DEF IsApplied
<1> HIDE DEF n
<1> DEFINE P == {k \in Nat : k <= n => Fine(after[k], k)}
<1>3. 0 \in P
  <2>1. \A i \in 1..0 : FALSE
      OBVIOUS
  <2>2. Configured(opts, 0, cfg0, cfg0)
      BY <2>1 DEF Configured
  <2> QED
      BY <1>2a, <2>2 DEF SameFunction
<1>4. ASSUME NEW k \in Nat, k \in P PROVE k + 1 \in P
  <2> SUFFICES ASSUME k + 1 <= n PROVE Fine(after[k + 1], k + 1)
      OBVIOUS
  <2>1. k + 1 \in 1..n /\ (k + 1) - 1 = k /\ k <= n
      BY <1>1
  <2>2. Fine(after[k], k)
      BY <1>4, <2>1
  <2>3. after[k + 1] = ApplyOption(after[k], opts[k + 1])
      BY <1>2a, <2>1
  <2>3a. opts[k + 1].option = "Append" => DOMAIN opts[k + 1].binding = BindingParts
      BY <2>1 DEF n
  <2> DEFINE r == after[k]  q == after[k + 1]
  <2>4. /\ WellFormed(q) /\ SameFunction(q, r)
        /\ DOMAIN q.bindings[1].cfg = DOMAIN r.bindings[1].cfg
        /\ \A f \in DOMAIN r.bindings[1].cfg :
              q.bindings[1].cfg[f] = IF Sets(opts[k + 1], f) THEN OptionValue(opts[k + 1])
                                     ELSE r.bindings[1].cfg[f]
      BY <2>2, <2>3, <2>3a, OptionKeeps
  <2> HIDE DEF r, q
  <2>5. Configured(opts, k, r.bindings[1].cfg, cfg0)
      BY <2>2 DEF r
  <2>6. Configured(opts, k + 1, q.bindings[1].cfg, cfg0)
    <3> HIDE DEF cfg0
    <3> QED
        BY <2>4, <2>5, ConfiguredOnce
  <2>7. SameFunction(q, rf)
      BY <2>2, <2>4 DEF SameFunction, r
  <2> QED
      BY <2>4, <2>6, <2>7 DEF q
<1>5. n \in P
  <2> HIDE DEF P
  <2> QED
      BY <1>1, <1>3, <1>4, Induction
<1>6. Fine(after[n], n)
    BY <1>1, <1>5
<1> QED
    BY <1>2, <1>6 DEF n

-----------------------------------------------------------------------------
(* Functions.                                                               *)

\* What invocations rely on: a generic trigger is an input whose name is its
\* own, and takes no client.
Sound(rf) ==
    /\ \E m \in Nat : DOMAIN rf.bindings = 1..m
    /\ 1 \in DOMAIN rf.bindings
    /\ IsGeneric(rf.bindings[1]) =>
          /\ ~rf.factory /\ rf.bindings[1].direction = "in"
          /\ \A j, k \in DOMAIN rf.bindings : rf.bindings[j].name = rf.bindings[k].name => j = k

\* A snapshot of a binding has its name and direction.
LEMMA CurrentKeeps ==
    ASSUME NEW b, DOMAIN b = BindingParts
    PROVE  /\ DOMAIN Current(b) = BindingParts
           /\ Current(b).name = b.name /\ Current(b).type = b.type
           /\ Current(b).direction = b.direction /\ Current(b).omit = b.omit
           /\ Current(b).cfg = b.cfg
           /\ ~IsGeneric(b) => Current(b) = b
           /\ IsGeneric(b) /\ {"properties", "dataType"} \subseteq DOMAIN b.generic =>
                 /\ DOMAIN Current(b).generic = DOMAIN b.generic
                 /\ Current(b).generic.dataType = b.generic.dataType
                 /\ Current(b).generic.properties = Snapshot(b.generic.properties)
<1>1. CASE IsGeneric(b)
  <2> DEFINE g == [b.generic EXCEPT !.properties = Snapshot(@)]
  <2>1. Current(b) = [b EXCEPT !.generic = g]
      BY <1>1 DEF Current
  <2>2. {"properties", "dataType"} \subseteq DOMAIN b.generic =>
           /\ DOMAIN g = DOMAIN b.generic /\ g.dataType = b.generic.dataType
           /\ g.properties = Snapshot(b.generic.properties)
      OBVIOUS
  <2> HIDE DEF g
  <2>3. /\ DOMAIN Current(b) = BindingParts /\ Current(b).generic = g
        /\ Current(b).name = b.name /\ Current(b).type = b.type
        /\ Current(b).direction = b.direction /\ Current(b).omit = b.omit
        /\ Current(b).cfg = b.cfg
      BY <2>1 DEF BindingParts
  <2> QED
      BY <1>1, <2>2, <2>3
<1>2. CASE ~IsGeneric(b)
    BY <1>2 DEF Current
<1> QED
    BY <1>1, <1>2

OptionsOK(opts) ==
    /\ IsList(opts)
    /\ \A i \in 1..Len(opts) :
          opts[i].option = "Append" => DOMAIN opts[i].binding = BindingParts

\* What registerFunction makes of a name, a trigger binding and options, when
\* it knows some functions.
IsFunctionOf(rf, name, binding, opts, known) ==
    /\ DOMAIN rf = FunctionParts /\ FunctionId(rf) = <<name, binding.type>>
    /\ FunctionId(rf) \notin DOMAIN known /\ rf.factory = FALSE
    /\ Sound(rf)
    /\ DOMAIN rf.bindings[1] = BindingParts
    /\ rf.bindings[1].name = binding.name /\ rf.bindings[1].omit = binding.omit
    /\ IsGeneric(rf.bindings[1]) <=> IsGeneric(binding)
    /\ IsGeneric(binding) =>
          /\ {"properties", "dataType"} \subseteq DOMAIN rf.bindings[1].generic
          /\ rf.bindings[1].generic.properties = Snapshot(binding.generic.properties)
    /\ ~IsGeneric(binding) => Configured(opts, Len(opts), rf.bindings[1].cfg, binding.cfg)

\* registerFunction: the function that a registration leads to.
LEMMA NewFunctionFacts ==
    ASSUME NEW name, NEW handler, NEW binding, NEW opts, NEW known, OptionsOK(opts),
           DOMAIN binding = BindingParts,
           IsGeneric(binding) => {"properties", "dataType"} \subseteq DOMAIN binding.generic,
           NEW rf \in NewFunction(name, handler, binding, opts, known)
    PROVE  IsFunctionOf(rf, name, binding, opts, known)
<1> USE DEF IsFunctionOf
<1> DEFINE out == IF binding.type = "httpTrigger" THEN <<HTTPOutput>> ELSE <<>>
           fresh == [name |-> name, type |-> binding.type, handler |-> handler, retry |-> "",
                     bindings |-> <<binding>> \o out, factory |-> FALSE]
           r == Applied(fresh, opts)
           stored == IF IsGeneric(binding)
                     THEN [r EXCEPT !.bindings = [k \in DOMAIN @ |-> SnapshotBinding(@[k])]]
                     ELSE r
<1>1. /\ IsGeneric(binding) => ~RegistrationRejected(r)
      /\ FunctionId(r) \notin DOMAIN known
      /\ rf = stored
    BY DEF NewFunction
<1> DEFINE bs == <<binding>> \o out
<1>2. /\ bs \in Seq({binding, HTTPOutput}) /\ bs[1] = binding /\ Len(bs) \in Nat /\ 1 \in 1..Len(bs)
      /\ \A k \in 1..Len(bs) : bs[k] \in {binding, HTTPOutput}
  <2> DEFINE S == {binding, HTTPOutput}
  <2>1. /\ <<binding>> \in Seq(S) /\ Len(<<binding>>) = 1 /\ <<binding>>[1] = binding
        /\ out \in Seq(S)
    <3>1. binding \in S /\ HTTPOutput \in S
        OBVIOUS
    <3> HIDE DEF S
    <3>2. /\ <<binding>> \in Seq(S) /\ <<HTTPOutput>> \in Seq(S) /\ <<>> \in Seq(S)
          /\ Len(<<binding>>) = 1 /\ <<binding>>[1] = binding
        BY <3>1
    <3> QED
        BY <3>2
  <2> HIDE DEF S, out
  <2>2. /\ bs \in Seq(S) /\ Len(bs) = 1 + Len(out) /\ Len(out) \in Nat /\ bs[1] = binding
      BY <2>1, ConcatProperties, LenProperties
  <2> HIDE DEF bs
  <2>3. \A k \in 1..Len(bs) : bs[k] \in S
      BY <2>2, ElementOfSeq
  <2> QED
      BY <2>2, <2>3 DEF S
<1>3. DOMAIN bs = 1..Len(bs) /\ DOMAIN HTTPOutput = BindingParts
  <2>1. DOMAIN bs = 1..Len(bs)
    <3> HIDE DEF bs
    <3> QED
        BY <1>2, LenProperties
  <2> QED
      BY <2>1 DEF HTTPOutput, ReturnBinding, ToBinding, BindingParts
<1>4. /\ DOMAIN fresh = FunctionParts /\ fresh.bindings = bs
      /\ fresh.name = name /\ fresh.type = binding.type /\ fresh.factory = FALSE
    BY DEF FunctionParts
<1> HIDE DEF bs, fresh
<1>5. WellFormed(fresh)
    BY <1>2, <1>3, <1>4 DEF WellFormed
<1>6. /\ WellFormed(r) /\ SameFunction(r, fresh)
      /\ Configured(opts, Len(opts), r.bindings[1].cfg, binding.cfg)
    BY <1>2, <1>4, <1>5, AppliedKeeps DEF OptionsOK
<1> HIDE DEF r
<1>7. /\ DOMAIN r = FunctionParts /\ r.name = name /\ r.type = binding.type /\ r.factory = FALSE
      /\ 1 \in DOMAIN r.bindings
      /\ \A k \in DOMAIN r.bindings : DOMAIN r.bindings[k] = BindingParts
      /\ r.bindings[1].name = binding.name /\ r.bindings[1].omit = binding.omit
      /\ r.bindings[1].generic = binding.generic
    BY <1>2, <1>4, <1>6 DEF WellFormed, SameFunction
<1>8. \E m \in Nat : DOMAIN r.bindings = 1..m
  <2>1. PICK S : r.bindings \in Seq(S)
      BY <1>6 DEF WellFormed
  <2> QED
      BY <2>1, LenProperties
<1>9. CASE ~IsGeneric(binding)
  <2>1. rf = r /\ ~IsGeneric(r.bindings[1])
      BY <1>1, <1>7, <1>9 DEF IsGeneric
  <2> QED
      BY <1>1, <1>6, <1>7, <1>8, <1>9, <2>1 DEF FunctionId, Sound
<1>10. CASE IsGeneric(binding)
  <2> DEFINE now == [k \in DOMAIN r.bindings |-> SnapshotBinding(r.bindings[k])]
  <2>1. rf = [r EXCEPT !.bindings = now]
      BY <1>1, <1>10
  <2>2. /\ DOMAIN now = DOMAIN r.bindings
        /\ \A k \in DOMAIN r.bindings : now[k] = Current(r.bindings[k])
      BY DEF SnapshotBinding
  <2> HIDE DEF now
  <2>3. /\ DOMAIN rf = FunctionParts /\ rf.bindings = now
        /\ rf.name = name /\ rf.type = binding.type /\ rf.factory = FALSE
      BY <1>7, <2>1 DEF FunctionParts
  <2>4. \A k \in DOMAIN r.bindings : now[k].name = r.bindings[k].name
      BY <1>7, <2>2, CurrentKeeps
  <2>5. /\ r.bindings[1].direction = "in"
        /\ \A k \in DOMAIN r.bindings : ~BindingRejected(r.bindings, k)
      BY <1>1, <1>10 DEF RegistrationRejected
  <2>6. \A j, k \in DOMAIN r.bindings : r.bindings[j].name = r.bindings[k].name => j = k
    <3>1. ASSUME NEW j \in DOMAIN r.bindings, NEW k \in DOMAIN r.bindings,
                 r.bindings[j].name = r.bindings[k].name, j < k
          PROVE  FALSE
      <4>1. j \in 1..(k - 1)
          BY <1>8, <3>1
      <4>2. BindingRejected(r.bindings, k)
          BY <3>1, <4>1 DEF BindingRejected
      <4> QED
          BY <2>5, <4>2
    <3> QED
        BY <1>8, <3>1
  <2>7. IsGeneric(r.bindings[1])
      BY <1>7, <1>10 DEF IsGeneric
  <2>8. /\ DOMAIN now[1] = BindingParts /\ DOMAIN now[1].generic = DOMAIN binding.generic
        /\ now[1].name = binding.name /\ now[1].omit = binding.omit /\ now[1].direction = "in"
        /\ now[1].generic.dataType = binding.generic.dataType
        /\ now[1].generic.properties = Snapshot(binding.generic.properties)
      BY <1>7, <1>10, <2>2, <2>5, <2>7, CurrentKeeps
  <2>9. IsGeneric(now[1])
      BY <1>10, <2>8 DEF IsGeneric
  <2>10. Sound(rf)
      BY <1>7, <1>8, <2>2, <2>3, <2>4, <2>6, <2>8 DEF Sound
  <2> QED
      BY <1>1, <1>7, <1>10, <2>3, <2>8, <2>9, <2>10 DEF FunctionId
<1> QED
    BY <1>9, <1>10

-----------------------------------------------------------------------------
(* What the metadata says of a function.                                    *)

\* A set of positions of a list has a last one.
LEMMA LastPosition ==
    ASSUME NEW n \in Nat, NEW S \in SUBSET (1..n), S # {}
    PROVE  \E i \in S : \A j \in S : j <= i
<1> DEFINE P == {m \in Nat : \A T \in SUBSET (1..m) :
                                T # {} => \E i \in T : \A j \in T : j <= i}
<1>1. 0 \in P
  <2>1. \A T \in SUBSET (1..0) : T = {}
      OBVIOUS
  <2> QED
      BY <2>1
<1>2. ASSUME NEW m \in Nat, m \in P PROVE m + 1 \in P
  <2> SUFFICES ASSUME NEW T \in SUBSET (1..(m + 1)), T # {}
               PROVE  \E i \in T : \A j \in T : j <= i
      OBVIOUS
  <2>1. CASE m + 1 \in T
      BY <2>1
  <2>2. CASE m + 1 \notin T
    <3>1. T \in SUBSET (1..m)
        BY <2>2
    <3> QED
        BY <1>2, <3>1
  <2> QED
      BY <2>1, <2>2
<1>3. Nat \subseteq P
  <2> HIDE DEF P
  <2> QED
      BY <1>1, <1>2, Induction
<1> QED
    BY <1>3

\* A call of a registering method asks for what is in its trigger binding.
Faithful(e, b) ==
    /\ DOMAIN b = BindingParts
    /\ IF e.call = "GenericTrigger"
       THEN LET asked(p) == IF e.trigger.properties[p] = "shared" THEN e.property
                            ELSE e.trigger.properties[p]
            IN /\ IsGeneric(b) /\ {"properties", "dataType"} \subseteq DOMAIN b.generic
               /\ DOMAIN b.generic.properties = DOMAIN e.trigger.properties
               /\ \A p \in DOMAIN e.trigger.properties :
                     b.generic.properties[p] = asked(p) /\ asked(p) # "shared"
       ELSE /\ ~IsGeneric(b) /\ b.omit = ModelOf(e).omit
            /\ DOMAIN b.cfg = DOMAIN ModelOf(e).cfg
            /\ \A f \in DOMAIN b.cfg : b.cfg[f] = AskedFor(e, f)

\* No typed configuration has a field named like the binding's own.
LEMMA ModelFields ==
    ASSUME NEW c, c.call = "typed" => c.method \in DOMAIN TypedModels
    PROVE  \A f \in DOMAIN ModelOf(c).cfg : f \notin {"name", "type", "direction"}
<1> DEFINE Free(m) == \A f \in DOMAIN m.cfg : f \notin {"name", "type", "direction"}
<1>1. Free(HTTPModel) /\ Free(TimerModel) /\ Free(SQLModel) /\ Free(EventGridModel)
      /\ Free(QueueModel) /\ Free(BlobModel)
    BY DEF HTTPModel, TimerModel, SQLModel, EventGridModel, QueueModel, BlobModel, Model
<1>2. Free(CosmosModel)
    BY DEF CosmosModel, CosmosOmitted, CosmosLease, Model
<1>3. \A v : Free(EventHubModel(v))
    BY DEF EventHubModel, EventHubFields, Model
<1>4. \A v : Free(ServiceBusModel(v))
    BY DEF ServiceBusModel, ServiceBusFields, Model
<1> HIDE DEF Free
<1>5. \A m \in DOMAIN TypedModels : Free(TypedModels[m])
    BY <1>1, <1>2, <1>3, <1>4 DEF TypedModels
<1>6. Free(ModelOf(c))
    BY <1>1, <1>5 DEF ModelOf
<1> QED
    BY <1>6 DEF Free

\* Binding.MarshalJSON: the metadata says what the binding of a faithful
\* registration holds, whatever the caller's property map holds now.
LEMMA FaithfulSays ==
    ASSUME NEW e, e.call = "typed" => e.method \in DOMAIN TypedModels, NEW b, Faithful(e, b)
    PROVE  SaysWhatWasAsked(e, MarshalJSON(Current(b)))
<1> DEFINE raw == MarshalJSON(Current(b))
<1>0. DOMAIN b = BindingParts
    BY DEF Faithful
<1>1. CASE e.call = "GenericTrigger"
  <2> DEFINE asked(p) == IF e.trigger.properties[p] = "shared" THEN e.property
                         ELSE e.trigger.properties[p]
             cur == Current(b)
             ps == b.generic.properties
  <2>1. /\ IsGeneric(b) /\ {"properties", "dataType"} \subseteq DOMAIN b.generic
        /\ DOMAIN ps = DOMAIN e.trigger.properties
        /\ \A p \in DOMAIN ps : ps[p] = asked(p) /\ asked(p) # "shared"
      BY <1>1 DEF Faithful
  <2>2. IsGeneric(cur) /\ cur.generic.properties = Snapshot(ps)
      BY <1>0, <2>1, CurrentKeeps DEF IsGeneric
  <2> HIDE DEF asked
  <2>3. DOMAIN Snapshot(ps) = DOMAIN ps /\ \A p \in DOMAIN ps : Snapshot(ps)[p] = asked(p)
      BY <2>1 DEF Snapshot
  <2> HIDE DEF cur, ps
  <2>4. \E r : MarshalJSON(cur) = Merge(r, cur.generic.properties)
      BY <2>2 DEF MarshalJSON
  <2>5. \A p \in DOMAIN e.trigger.properties : MarshalJSON(cur)[p] = asked(p)
      BY <2>1, <2>2, <2>3, <2>4 DEF Merge
  <2> QED
      BY <1>1, <2>5 DEF SaysWhatWasAsked, asked, cur
<1>2. CASE e.call # "GenericTrigger"
  <2> DEFINE base == [name |-> b.name, type |-> b.type, direction |-> b.direction]
             kept == {f \in DOMAIN b.cfg : b.cfg[f] # "" \/ f \notin b.omit}
  <2>1. /\ ~IsGeneric(b) /\ b.omit = ModelOf(e).omit
        /\ DOMAIN b.cfg = DOMAIN ModelOf(e).cfg
        /\ \A f \in DOMAIN b.cfg : b.cfg[f] = AskedFor(e, f)
      BY <1>2 DEF Faithful
  <2>2. raw = Merge(base, [f \in kept |-> b.cfg[f]])
    <3>1. Current(b) = b
        BY <2>1 DEF Current
    <3> QED
        BY <2>1, <3>1 DEF MarshalJSON
  <2>3. DOMAIN base = {"name", "type", "direction"}
      OBVIOUS
  <2> HIDE DEF base, raw
  <2>4. /\ DOMAIN raw = {"name", "type", "direction"} \cup kept
        /\ \A f \in kept : raw[f] = b.cfg[f]
      BY <2>2, <2>3 DEF Merge
  <2>5. \A f \in DOMAIN b.cfg : f \notin {"name", "type", "direction"}
      BY <2>1, ModelFields
  <2>6. \A f \in DOMAIN ModelOf(e).cfg :
            IF AskedFor(e, f) = "" /\ f \in ModelOf(e).omit THEN f \notin DOMAIN raw
            ELSE raw[f] = AskedFor(e, f)
      BY <2>1, <2>4, <2>5
  <2> QED
      BY <1>2, <2>6 DEF SaysWhatWasAsked, raw
<1> QED
    BY <1>1, <1>2

\* The value that is asked for is the one the options leave.
LEMMA ConfiguredIsAsked ==
    ASSUME NEW c, IsList(c.opts), NEW cfg, Configured(c.opts, Len(c.opts), cfg, ModelOf(c).cfg)
    PROVE  \A f \in DOMAIN cfg : cfg[f] = AskedFor(c, f)
<1> DEFINE n == Len(c.opts)
<1>1. n \in Nat /\ DOMAIN c.opts = 1..n
    BY DEF IsList
<1> SUFFICES ASSUME NEW f \in DOMAIN cfg PROVE cfg[f] = AskedFor(c, f)
    OBVIOUS
<1> DEFINE setting == {i \in DOMAIN c.opts : Sets(c.opts[i], f)}
           last == CHOOSE i \in setting : \A j \in setting : j <= i
<1>2. f \in DOMAIN ModelOf(c).cfg
    BY DEF Configured
<1>3. CASE setting = {}
    BY <1>1, <1>2, <1>3 DEF Configured, AskedFor
<1>4. CASE setting # {}
  <2>1. \E i \in setting : \A j \in setting : j <= i
      BY <1>1, <1>4, LastPosition
  <2>2. last \in setting /\ \A j \in setting : j <= last
    <3> HIDE DEF setting
    <3> QED
        BY <2>1
  <2>3. cfg[f] = OptionValue(c.opts[last])
    <3> HIDE DEF last
    <3> QED
        BY <1>1, <1>2, <2>2 DEF Configured
  <2> QED
      BY <1>4, <2>3 DEF AskedFor
<1> QED
    BY <1>3, <1>4

-----------------------------------------------------------------------------
(* The functions of the App and the calls of main.                          *)

NameOf(c) == <<c.name, TypeOf(c)>>
Logged(c, p) == Merge(c, [property |-> p])

\* What the log of a call says of it.
LEMMA LoggedFacts ==
    ASSUME NEW c, NEW p, CallOK(c)
    PROVE  LET e == Logged(c, p) IN
           /\ CallOK(e) /\ e.property = p /\ e.call = c.call
           /\ IsRegistering(e) <=> IsRegistering(c)
           /\ IsDurable(e) <=> IsDurable(c)
           /\ c.call = "Use" => e.middleware = c.middleware
           /\ IsDurable(c) => e.name = c.name
           /\ IsRegistering(c) => e.name = c.name /\ e.opts = c.opts
           /\ c.call = "typed" => e.method = c.method
           /\ c.call = "GenericTrigger" => e.trigger = c.trigger
<1> DEFINE e == Logged(c, p)
<1>1. /\ DOMAIN e = DOMAIN c \cup {"property"} /\ e["property"] = p
      /\ \A x \in DOMAIN c : x # "property" => e[x] = c[x]
    BY DEF Logged, Merge
<1> HIDE DEF e
<1>2. "call" \in DOMAIN c /\ e.call = c.call
    BY <1>1 DEF CallOK
<1>3. c.call = "Use" => "middleware" \in DOMAIN c /\ e.middleware = c.middleware
    BY <1>1 DEF CallOK
<1>4. IsDurable(c) => "name" \in DOMAIN c /\ e.name = c.name
    BY <1>1 DEF CallOK
<1>5. IsRegistering(c) => {"name", "opts"} \subseteq DOMAIN c /\ e.name = c.name /\ e.opts = c.opts
    BY <1>1 DEF CallOK
<1>6. c.call = "typed" => "method" \in DOMAIN c /\ e.method = c.method
    BY <1>1 DEF CallOK
<1>7. c.call = "GenericTrigger" => "trigger" \in DOMAIN c /\ e.trigger = c.trigger
    BY <1>1 DEF CallOK
<1>8. (IsRegistering(e) <=> IsRegistering(c)) /\ (IsDurable(e) <=> IsDurable(c))
    BY <1>2 DEF IsRegistering, IsDurable
<1>9. CallOK(e)
    BY <1>1, <1>2, <1>3, <1>4, <1>5, <1>6, <1>7, <1>8 DEF CallOK
<1> QED
    BY <1>1, <1>2, <1>3, <1>4, <1>5, <1>6, <1>7, <1>8, <1>9 DEF e

\* The methods of App: a function that is registered is what the call says.
LEMMA RegisteringFacts ==
    ASSUME NEW c, CallOK(c), IsRegistering(c), property \in {"old", "new"},
           NEW rf, \/ c.call = "typed" /\ rf \in RegisterTyped(c)
                   \/ c.call = "Blob" /\ rf \in RegisterBlob(c)
                   \/ c.call = "GenericTrigger" /\ rf \in RegisterGeneric(c)
    PROVE  LET e == Logged(c, property) IN
           /\ FunctionId(rf) = NameOf(e) /\ FunctionId(rf) \notin DOMAIN registered
           /\ Sound(rf) /\ Faithful(e, rf.bindings[1])
<1> DEFINE e == Logged(c, property)
<1>1. IsList(c.opts) /\ OptionsOK(c.opts)
    BY DEF CallOK, IsList, OptionsOK, HTTPOutput, ReturnBinding, ToBinding, BindingParts
<1>2. /\ e.property = property /\ e.call = c.call /\ e.name = c.name /\ e.opts = c.opts
      /\ c.call = "typed" => e.method = c.method
      /\ c.call = "GenericTrigger" => e.trigger = c.trigger
    BY LoggedFacts
<1> HIDE DEF e
<1>3. ModelOf(e) = ModelOf(c) /\ TypeOf(e) = TypeOf(c)
    BY <1>2 DEF ModelOf, TypeOf, IsDurable
<1>4. ASSUME NEW handler, NEW r \in NewFunction(c.name, handler, ToBinding(ModelOf(c)), c.opts,
                                                registered),
             c.call # "GenericTrigger"
      PROVE  /\ DOMAIN r = FunctionParts
             /\ FunctionId(r) = NameOf(e) /\ FunctionId(r) \notin DOMAIN registered
             /\ Sound(r) /\ ~IsGeneric(r.bindings[1]) /\ Faithful(e, r.bindings[1])
  <2> DEFINE b == ToBinding(ModelOf(c))
             s == r.bindings[1]
  <2>1. /\ DOMAIN b = BindingParts /\ ~IsGeneric(b) /\ b.type = ModelOf(c).type
        /\ b.omit = ModelOf(c).omit /\ b.cfg = ModelOf(c).cfg
      BY DEF ToBinding, BindingParts, IsGeneric, NoGeneric
  <2>1a. r \in NewFunction(c.name, handler, b, c.opts, registered)
      OBVIOUS
  <2> HIDE DEF b
  <2>1b. IsFunctionOf(r, c.name, b, c.opts, registered)
      BY <1>1, <2>1, <2>1a, NewFunctionFacts
  <2>2. /\ DOMAIN r = FunctionParts /\ FunctionId(r) = <<c.name, b.type>>
        /\ FunctionId(r) \notin DOMAIN registered /\ Sound(r)
        /\ DOMAIN s = BindingParts /\ s.omit = b.omit /\ ~IsGeneric(s)
        /\ Configured(c.opts, Len(c.opts), s.cfg, b.cfg)
      BY <2>1, <2>1b DEF IsFunctionOf
  <2> HIDE DEF s
  <2>3. \A f \in DOMAIN s.cfg : s.cfg[f] = AskedFor(c, f)
      BY <1>1, <2>1, <2>2, ConfiguredIsAsked
  <2>4. \A f : AskedFor(c, f) = AskedFor(e, f)
      BY <1>2, <1>3 DEF AskedFor
  <2>5. DOMAIN s.cfg = DOMAIN ModelOf(c).cfg
      BY <2>1, <2>2 DEF Configured
  <2>6. Faithful(e, s)
      BY <1>2, <1>3, <1>4, <2>1, <2>2, <2>3, <2>4, <2>5 DEF Faithful
  <2>7. TypeOf(c) = ModelOf(c).type
      BY <1>4 DEF TypeOf, IsDurable, IsRegistering
  <2> QED
      BY <1>2, <1>3, <2>1, <2>2, <2>6, <2>7 DEF NameOf, s
<1>5. CASE c.call = "typed"
  <2>1. rf \in NewFunction(c.name, HandlerOf(c.method), ToBinding(ModelOf(c)), c.opts, registered)
      BY <1>5 DEF RegisterTyped, ModelOf
  <2> QED
      BY <1>4, <1>5, <2>1 DEF e
<1>6. CASE c.call = "Blob"
  <2>1. ModelOf(c) = TypedModels["Blob"]
      BY <1>6 DEF ModelOf, TypedModels
  <2>2. PICK r \in NewFunction(c.name, c.handler, ToBinding(ModelOf(c)), c.opts, registered) :
            rf = [r EXCEPT !.factory = "blobTrigger" \in factories]
      BY <1>6, <2>1 DEF RegisterBlob
  <2>3. /\ DOMAIN r = FunctionParts
        /\ FunctionId(r) = NameOf(e) /\ FunctionId(r) \notin DOMAIN registered
        /\ Sound(r) /\ ~IsGeneric(r.bindings[1]) /\ Faithful(e, r.bindings[1])
      BY <1>4, <1>6
  <2>4. rf.name = r.name /\ rf.type = r.type /\ rf.bindings = r.bindings
      BY <2>2, <2>3 DEF FunctionParts
  <2> QED
      BY <2>3, <2>4 DEF FunctionId, Sound, e
<1>7. CASE c.call = "GenericTrigger"
  <2> DEFINE g == c.trigger
             b == GenericBinding(g.name, g.type, g.dataType, g.cardinality, g.properties)
             s == rf.bindings[1]
  <2>1. /\ DOMAIN b = BindingParts /\ IsGeneric(b) /\ b.type = g.type
        /\ {"properties", "dataType"} \subseteq DOMAIN b.generic
        /\ b.generic.properties = g.properties
      BY <1>7 DEF GenericBinding, ToBinding, BindingParts, IsGeneric, CallOK, Model
  <2>2. rf \in NewFunction(c.name, c.handler, b, c.opts, registered)
      BY <1>7 DEF RegisterGeneric
  <2> HIDE DEF b
  <2>2a. IsFunctionOf(rf, c.name, b, c.opts, registered)
      BY <1>1, <2>1, <2>2, NewFunctionFacts
  <2>3. /\ FunctionId(rf) = <<c.name, g.type>>
        /\ FunctionId(rf) \notin DOMAIN registered /\ Sound(rf)
        /\ DOMAIN s = BindingParts /\ IsGeneric(s)
        /\ {"properties", "dataType"} \subseteq DOMAIN s.generic
        /\ s.generic.properties = Snapshot(g.properties)
      BY <2>1, <2>2a DEF IsFunctionOf
  <2> HIDE DEF s
  <2>4. Faithful(e, s)
      BY <1>2, <1>7, <2>3 DEF Faithful, Snapshot
  <2>5. TypeOf(c) = g.type
      BY <1>7 DEF TypeOf
  <2> QED
      BY <1>2, <1>3, <2>3, <2>4, <2>5 DEF NameOf, e, s
<1> QED
    BY <1>5, <1>6, <1>7 DEF IsRegistering

-----------------------------------------------------------------------------
(* The invariants: what is registered is what main asked for.               *)

\* The entries of the program that a function goes with: a durable one from the
\* moment the middleware is used.
Made(i) ==
    \/ IsRegistering(program[i])
    \/ closed /\ IsDurable(program[i])
UsesDurable(c) == c.call = "Use" /\ c.middleware = "durable"

NamesInv ==
    /\ closed \in BOOLEAN
    /\ closed <=> (\E i \in 1..Len(program) : UsesDurable(program[i]))
    /\ \A i \in 1..Len(program) : Made(i) => NameOf(program[i]) \in DOMAIN registered
    /\ \A f \in DOMAIN registered : \E i \in 1..Len(program) : Made(i) /\ NameOf(program[i]) = f
    /\ \A i, j \in 1..Len(program) :
          Made(i) /\ Made(j) /\ NameOf(program[i]) = NameOf(program[j]) => i = j

RegisteredInv ==
    /\ \A f \in DOMAIN registered : FunctionId(registered[f]) = f /\ Sound(registered[f])
    /\ \A i \in 1..Len(program) :
          IsRegistering(program[i]) =>
              Faithful(program[i], registered[NameOf(program[i])].bindings[1])

\* The durable middleware holds what was asked of it, in the order of the calls.
Provisions ==
    {[name |-> c.name, binding |-> ToBinding(DurableModels[c.call]),
      handler |-> IF c.call = "Orchestrator"
                  THEN Handler(<<"context", "string">>, <<"string", "error">>)
                  ELSE Handler(<<"context", "bytes">>, <<"any", "error">>)] :
        c \in {d \in AllCalls : IsDurable(d)}}
Provides(k, i) ==
    /\ IsDurable(program[i]) /\ provided[k].name = program[i].name
    /\ provided[k].binding = ToBinding(DurableModels[program[i].call])
ProvidedInv ==
    /\ provided \in Seq(Provisions)
    /\ \E at \in [1..Len(provided) -> 1..Len(program)] :
          /\ \A k \in 1..Len(provided) : Provides(k, at[k])
          /\ \A i \in 1..Len(program) :
                IsDurable(program[i]) => \E k \in 1..Len(provided) : at[k] = i

FunctionsInv == NamesInv /\ RegisteredInv /\ ProvidedInv

\* What the metadata said of the functions.
Reported(fs) ==
    /\ \A d \in fs : d.id \in DOMAIN registered
    /\ \A f \in DOMAIN registered : \E d \in fs : d.id = f
    /\ \A d, e \in fs : d.id = e.id => d = e
    /\ \A i \in 1..Len(program), d \in fs :
          IsRegistering(program[i]) /\ d.id = NameOf(program[i])
          => SaysWhatWasAsked(program[i], d.raw[1])
ToldInv ==
    told.rounds > 0 =>
        /\ stage = "serving"
        /\ ~told.failed => Reported(told.functions)

\* main has registered nothing, and the host has been told nothing.
LEMMA FunctionsInvInit == Init => FunctionsInv /\ ToldInv
<1> SUFFICES ASSUME Init PROVE FunctionsInv /\ ToldInv
    OBVIOUS
<1>1. /\ program = <<>> /\ registered = <<>> /\ provided = <<>> /\ closed = FALSE
      /\ told = [capabilities |-> NoFields, functions |-> {}, failed |-> FALSE, rounds |-> 0]
    BY DEF Init, RegistrationInit
<1>2. /\ <<>> \in Seq(Provisions) /\ Len(<<>>) = 0 /\ \A i \in 1..0 : FALSE
      /\ DOMAIN <<>> = {}
  <2> HIDE DEF Provisions
  <2> QED
      BY EmptySeq
<1>3. NamesInv
    BY <1>1, <1>2 DEF NamesInv
<1>4. RegisteredInv
    BY <1>1, <1>2 DEF RegisteredInv
<1>5. ProvidedInv
  <2> DEFINE at == [k \in 1..0 |-> 0]
  <2>1. at \in [1..0 -> 1..0]
      BY <1>2
  <2> HIDE DEF at, Provisions
  <2>2. Len(provided) = 0 /\ Len(program) = 0 /\ provided \in Seq(Provisions)
      BY <1>1, <1>2
  <2> QED
      BY <1>2, <2>1, <2>2 DEF ProvidedInv
<1>6. ~(told.rounds > 0)
    BY <1>1
<1> QED
    BY <1>3, <1>4, <1>5, <1>6 DEF FunctionsInv, ToldInv

\* A call that returns is logged last.
LEMMA EntryLogged ==
    ASSUME ProgramTypeOK, NEW c \in Scenarios[scenario].calls, Returned(c)
    PROVE  LET n == Len(program) + 1  e == Logged(c, property) IN
           /\ CallOK(c) /\ Len(program) \in Nat /\ Len(program') = n /\ program'[n] = e
           /\ n \in 1..n
           /\ \A k \in 1..Len(program) : k \in 1..n /\ program'[k] = program[k]
           /\ \A k \in 1..n : k \in 1..Len(program) \/ k = n
<1> DEFINE e == Logged(c, property)
<1>1. CallOK(c) /\ e \in Entries
    BY ScenariosAssumption DEF ProgramTypeOK, AllCalls, Entries, Logged
<1>2. program' = Append(program, e) /\ program \in Seq(Entries)
    BY DEF Returned, ProgramTypeOK, Logged
<1> HIDE DEF e, Entries
<1>3. /\ Len(program) \in Nat /\ Len(program') = Len(program) + 1
      /\ \A k \in 1..Len(program) : program'[k] = program[k]
      /\ program'[Len(program) + 1] = e
    BY <1>1, <1>2, AppendProperties, LenProperties
<1> QED
    BY <1>1, <1>3 DEF e

\* A call that provides nothing new keeps what is provided.
LEMMA ProvidedKept ==
    ASSUME ProvidedInv, UNCHANGED provided, NEW n, Len(program') = n,
           \A k \in 1..Len(program) : k \in 1..n /\ program'[k] = program[k],
           \A k \in 1..n : k \in 1..Len(program) \/ ~IsDurable(program'[k])
    PROVE  ProvidedInv'
<1>1. PICK at \in [1..Len(provided) -> 1..Len(program)] :
         /\ \A k \in 1..Len(provided) : Provides(k, at[k])
         /\ \A i \in 1..Len(program) :
               IsDurable(program[i]) => \E k \in 1..Len(provided) : at[k] = i
    BY DEF ProvidedInv
<1>2. at \in [1..Len(provided') -> 1..Len(program')]
    OBVIOUS
<1>3. \A k \in 1..Len(provided') : Provides(k, at[k])'
    BY <1>1 DEF Provides
<1>4. \A i \in 1..Len(program') :
         IsDurable(program'[i]) => \E k \in 1..Len(provided') : at[k] = i
    BY <1>1
<1>5. provided' \in Seq(Provisions)
    BY DEF ProvidedInv
<1> QED
    BY <1>2, <1>3, <1>4, <1>5 DEF ProvidedInv

\* registerFunction: a registering call adds its own function.
LEMMA RegisteringKeepsFunctions ==
    ASSUME ProgramTypeOK, FunctionsInv, NEW c \in Scenarios[scenario].calls, Returned(c),
           IsRegistering(c), UNCHANGED <<closed, provided>>,
           NEW rf, \/ c.call = "typed" /\ rf \in RegisterTyped(c)
                   \/ c.call = "Blob" /\ rf \in RegisterBlob(c)
                   \/ c.call = "GenericTrigger" /\ rf \in RegisterGeneric(c),
           registered' = With(registered, rf)
    PROVE  FunctionsInv'
<1>0. PICK n, e, m : n = Len(program) + 1 /\ e = Logged(c, property) /\ m = FunctionId(rf)
    OBVIOUS
<1>1. /\ CallOK(c) /\ Len(program) \in Nat /\ Len(program') = n /\ program'[n] = e
      /\ n \in 1..n
      /\ \A k \in 1..Len(program) : k \in 1..n /\ program'[k] = program[k]
      /\ \A k \in 1..n : k \in 1..Len(program) \/ k = n
    BY <1>0, EntryLogged
<1>2. /\ m = NameOf(e) /\ m \notin DOMAIN registered
      /\ Sound(rf) /\ Faithful(e, rf.bindings[1])
    BY <1>0, <1>1, RegisteringFacts DEF ProgramTypeOK
<1>3. /\ IsRegistering(e) /\ ~IsDurable(e) /\ ~UsesDurable(e)
    BY <1>0, <1>1, LoggedFacts DEF IsRegistering, IsDurable, UsesDurable
<1>4. /\ DOMAIN registered' = DOMAIN registered \cup {m}
      /\ registered'[m] = rf
      /\ \A f \in DOMAIN registered : registered'[f] = registered[f]
    BY <1>0, <1>2 DEF With, Assigned
<1>5. FunctionId(rf) = m
    BY <1>0
<1>6. /\ \A i \in 1..Len(program) : Made(i)' <=> Made(i)
      /\ Made(n)'
  <2>1. Made(n)'
      BY <1>1, <1>3 DEF Made
  <2>2. ASSUME NEW i \in 1..Len(program) PROVE Made(i)' <=> Made(i)
      BY <1>1 DEF Made
  <2> QED
      BY <2>1, <2>2
<1>7. NamesInv'
  <2>1. (\E i \in 1..n : UsesDurable(program'[i]))
        <=> (\E i \in 1..Len(program) : UsesDurable(program[i]))
      BY <1>1, <1>3
  <2>1a. closed' \in BOOLEAN /\ (closed' <=> \E i \in 1..Len(program') : UsesDurable(program'[i]))
      BY <1>1, <2>1 DEF FunctionsInv, NamesInv
  <2>2. \A i \in 1..Len(program') : Made(i)' => NameOf(program'[i]) \in DOMAIN registered'
      BY <1>1, <1>2, <1>4, <1>6 DEF FunctionsInv, NamesInv
  <2>3. \A f \in DOMAIN registered' :
           \E i \in 1..Len(program') : Made(i)' /\ NameOf(program'[i]) = f
    <3>1. ASSUME NEW f \in DOMAIN registered
          PROVE  \E i \in 1..Len(program') : Made(i)' /\ NameOf(program'[i]) = f
        BY <1>1, <1>6 DEF FunctionsInv, NamesInv
    <3>2. n \in 1..Len(program') /\ Made(n)' /\ NameOf(program'[n]) = m
        BY <1>1, <1>2, <1>6
    <3> QED
        BY <1>4, <3>1, <3>2
  <2>4. \A i, j \in 1..Len(program') :
           Made(i)' /\ Made(j)' /\ NameOf(program'[i]) = NameOf(program'[j]) => i = j
    <3>1. ASSUME NEW i \in 1..Len(program), Made(i) PROVE NameOf(program[i]) # m
        BY <1>2, <3>1 DEF FunctionsInv, NamesInv
    <3> QED
        BY <1>1, <1>2, <1>6, <3>1 DEF FunctionsInv, NamesInv
  <2> QED
      BY <2>1a, <2>2, <2>3, <2>4 DEF NamesInv
<1>8. RegisteredInv'
  <2>1. \A f \in DOMAIN registered' : FunctionId(registered'[f]) = f /\ Sound(registered'[f])
      BY <1>2, <1>4, <1>5 DEF FunctionsInv, RegisteredInv
  <2>2. ASSUME NEW i \in 1..Len(program), IsRegistering(program[i])
        PROVE  /\ program'[i] = program[i]
               /\ registered'[NameOf(program[i])] = registered[NameOf(program[i])]
      BY <1>1, <1>4, <2>2 DEF FunctionsInv, NamesInv, Made
  <2>3. \A i \in 1..Len(program') :
           IsRegistering(program'[i]) =>
               Faithful(program'[i], registered'[NameOf(program'[i])].bindings[1])
      BY <1>1, <1>2, <1>4, <2>2 DEF FunctionsInv, RegisteredInv
  <2> QED
      BY <2>1, <2>3 DEF RegisteredInv
<1>9. ProvidedInv'
    BY <1>1, <1>3, ProvidedKept DEF FunctionsInv
<1> QED
    BY <1>7, <1>8, <1>9 DEF FunctionsInv

\* A call that registers and provides nothing, and does not use the durable
\* middleware.
LEMMA QuietCallKeepsFunctions ==
    ASSUME ProgramTypeOK, FunctionsInv, NEW c \in Scenarios[scenario].calls, Returned(c),
           ~IsRegistering(c), ~IsDurable(c), ~UsesDurable(c),
           UNCHANGED <<registered, closed, provided>>
    PROVE  FunctionsInv'
<1>0. PICK n, e : n = Len(program) + 1 /\ e = Logged(c, property)
    OBVIOUS
<1>1. /\ CallOK(c) /\ Len(program) \in Nat /\ Len(program') = n /\ program'[n] = e
      /\ n \in 1..n
      /\ \A k \in 1..Len(program) : k \in 1..n /\ program'[k] = program[k]
      /\ \A k \in 1..n : k \in 1..Len(program) \/ k = n
    BY <1>0, EntryLogged
<1>2. ~IsRegistering(e) /\ ~IsDurable(e) /\ ~UsesDurable(e)
    BY <1>0, <1>1, LoggedFacts DEF UsesDurable
<1>3. \A i \in 1..Len(program) : Made(i)' <=> Made(i)
  <2>1. ASSUME NEW i \in 1..Len(program) PROVE Made(i)' <=> Made(i)
      BY <1>1 DEF Made
  <2> QED
      BY <2>1
<1>4. ~Made(n)'
    BY <1>1, <1>2 DEF Made
<1>5. NamesInv'
  <2>1. (\E i \in 1..n : UsesDurable(program'[i]))
        <=> (\E i \in 1..Len(program) : UsesDurable(program[i]))
      BY <1>1, <1>2
  <2>2. closed' \in BOOLEAN /\ (closed' <=> \E i \in 1..Len(program') : UsesDurable(program'[i]))
      BY <1>1, <2>1 DEF FunctionsInv, NamesInv
  <2>3. \A i \in 1..Len(program') : Made(i)' => NameOf(program'[i]) \in DOMAIN registered'
      BY <1>1, <1>3, <1>4 DEF FunctionsInv, NamesInv
  <2>4. \A f \in DOMAIN registered' :
           \E i \in 1..Len(program') : Made(i)' /\ NameOf(program'[i]) = f
      BY <1>1, <1>3 DEF FunctionsInv, NamesInv
  <2>5. \A i, j \in 1..Len(program') :
           Made(i)' /\ Made(j)' /\ NameOf(program'[i]) = NameOf(program'[j]) => i = j
      BY <1>1, <1>3, <1>4 DEF FunctionsInv, NamesInv
  <2> QED
      BY <2>2, <2>3, <2>4, <2>5 DEF NamesInv
<1>6. RegisteredInv'
  <2>1. \A f \in DOMAIN registered' : FunctionId(registered'[f]) = f /\ Sound(registered'[f])
      BY DEF FunctionsInv, RegisteredInv
  <2>2. \A i \in 1..Len(program') :
           IsRegistering(program'[i]) =>
               Faithful(program'[i], registered'[NameOf(program'[i])].bindings[1])
      BY <1>1, <1>2 DEF FunctionsInv, RegisteredInv
  <2> QED
      BY <2>1, <2>2 DEF RegisteredInv
<1>7. ProvidedInv'
    BY <1>1, <1>2, ProvidedKept DEF FunctionsInv
<1> QED
    BY <1>5, <1>6, <1>7 DEF FunctionsInv

\* Durable.Orchestrator and Durable.Activity: before the middleware is used.
LEMMA DurableCallKeepsFunctions ==
    ASSUME ProgramTypeOK, FunctionsInv, NEW c \in Scenarios[scenario].calls, Returned(c),
           CallDurable(c), stage' # "panicked"
    PROVE  FunctionsInv'
<1>0. PICK n, e : n = Len(program) + 1 /\ e = Logged(c, property)
    OBVIOUS
<1>1. /\ CallOK(c) /\ Len(program) \in Nat /\ Len(program') = n /\ program'[n] = e
      /\ n \in 1..n
      /\ \A k \in 1..Len(program) : k \in 1..n /\ program'[k] = program[k]
      /\ \A k \in 1..n : k \in 1..Len(program) \/ k = n
    BY <1>0, EntryLogged
<1>2. IsDurable(c)
    BY DEF CallDurable, IsDurable
<1>3. /\ ~IsRegistering(e) /\ IsDurable(e) /\ ~UsesDurable(e)
      /\ e.call = c.call /\ e.name = c.name
    BY <1>0, <1>1, <1>2, LoggedFacts DEF UsesDurable, IsRegistering, IsDurable
<1> DEFINE given == [name |-> c.name, binding |-> ToBinding(DurableModels[c.call]),
                     handler |-> IF c.call = "Orchestrator"
                                 THEN Handler(<<"context", "string">>, <<"string", "error">>)
                                 ELSE Handler(<<"context", "bytes">>, <<"any", "error">>)]
<1>4. /\ ~closed /\ UNCHANGED <<closed, registered>>
      /\ provided' = Append(provided, given)
    BY DEF CallDurable, PanicsOut
<1>5. /\ given \in Provisions
      /\ given.name = e.name /\ given.binding = ToBinding(DurableModels[e.call])
    BY <1>2, <1>3 DEF Provisions, AllCalls, ProgramTypeOK
<1> HIDE DEF given
<1>6. \A i \in 1..Len(program) : Made(i)' <=> Made(i)
  <2>1. ASSUME NEW i \in 1..Len(program) PROVE Made(i)' <=> Made(i)
      BY <1>1, <1>4 DEF Made
  <2> QED
      BY <2>1
<1>7. ~Made(n)'
    BY <1>1, <1>3, <1>4 DEF Made
<1>8. NamesInv'
  <2>1. (\E i \in 1..n : UsesDurable(program'[i]))
        <=> (\E i \in 1..Len(program) : UsesDurable(program[i]))
      BY <1>1, <1>3
  <2>2. closed' \in BOOLEAN /\ (closed' <=> \E i \in 1..Len(program') : UsesDurable(program'[i]))
      BY <1>1, <1>4, <2>1 DEF FunctionsInv, NamesInv
  <2>3. \A i \in 1..Len(program') : Made(i)' => NameOf(program'[i]) \in DOMAIN registered'
      BY <1>1, <1>4, <1>6, <1>7 DEF FunctionsInv, NamesInv
  <2>4. \A f \in DOMAIN registered' :
           \E i \in 1..Len(program') : Made(i)' /\ NameOf(program'[i]) = f
      BY <1>1, <1>4, <1>6 DEF FunctionsInv, NamesInv
  <2>5. \A i, j \in 1..Len(program') :
           Made(i)' /\ Made(j)' /\ NameOf(program'[i]) = NameOf(program'[j]) => i = j
      BY <1>1, <1>6, <1>7 DEF FunctionsInv, NamesInv
  <2> QED
      BY <2>2, <2>3, <2>4, <2>5 DEF NamesInv
<1>9. RegisteredInv'
  <2>1. \A f \in DOMAIN registered' : FunctionId(registered'[f]) = f /\ Sound(registered'[f])
      BY <1>4 DEF FunctionsInv, RegisteredInv
  <2>2. \A i \in 1..Len(program') :
           IsRegistering(program'[i]) =>
               Faithful(program'[i], registered'[NameOf(program'[i])].bindings[1])
      BY <1>1, <1>3, <1>4 DEF FunctionsInv, RegisteredInv
  <2> QED
      BY <2>1, <2>2 DEF RegisteredInv
<1>10. ProvidedInv'
  <2>1. PICK at \in [1..Len(provided) -> 1..Len(program)] :
           /\ \A k \in 1..Len(provided) : Provides(k, at[k])
           /\ \A i \in 1..Len(program) :
                 IsDurable(program[i]) => \E k \in 1..Len(provided) : at[k] = i
      BY DEF FunctionsInv, ProvidedInv
  <2>2. PICK m : m = Len(provided) + 1
      OBVIOUS
  <2>3. /\ provided' \in Seq(Provisions) /\ Len(provided) \in Nat /\ Len(provided') = m
        /\ \A k \in 1..Len(provided) : k \in 1..m /\ k # m /\ provided'[k] = provided[k]
        /\ \A k \in 1..m : k \in 1..Len(provided) \/ k = m
        /\ m \in 1..m /\ provided'[m] = given
    <3> HIDE DEF Provisions
    <3>1. /\ provided' \in Seq(Provisions) /\ Len(provided) \in Nat /\ Len(provided') = m
          /\ \A k \in 1..Len(provided) : provided'[k] = provided[k]
          /\ provided'[m] = given
        BY <1>4, <1>5, <2>2, AppendProperties, LenProperties DEF FunctionsInv, ProvidedInv
    <3> QED
        BY <2>2, <3>1
  <2> DEFINE to == [k \in 1..m |-> IF k = m THEN n ELSE at[k]]
  <2>4. to \in [1..Len(provided') -> 1..Len(program')]
      BY <1>1, <2>3
  <2>5. \A k \in 1..Len(provided) : to[k] = at[k] /\ at[k] \in 1..Len(program)
      BY <2>3
  <2>6. to[m] = n
      BY <2>3
  <2> HIDE DEF to
  <2>7. \A k \in 1..Len(provided') :
           /\ IsDurable(program'[to[k]]) /\ provided'[k].name = program'[to[k]].name
           /\ provided'[k].binding = ToBinding(DurableModels[program'[to[k]].call])
    <3>1. ASSUME NEW k \in 1..Len(provided)
          PROVE  /\ IsDurable(program'[to[k]]) /\ provided'[k].name = program'[to[k]].name
                 /\ provided'[k].binding = ToBinding(DurableModels[program'[to[k]].call])
      <4>1. Provides(k, at[k]) /\ program'[to[k]] = program[at[k]]
          BY <1>1, <2>1, <2>5
      <4> QED
          BY <2>3, <4>1 DEF Provides
    <3>2. /\ IsDurable(program'[to[m]]) /\ provided'[m].name = program'[to[m]].name
          /\ provided'[m].binding = ToBinding(DurableModels[program'[to[m]].call])
        BY <1>1, <1>3, <1>5, <2>3, <2>6
    <3> QED
        BY <2>3, <3>1, <3>2
  <2>8. \A i \in 1..Len(program') :
           IsDurable(program'[i]) => \E k \in 1..Len(provided') : to[k] = i
      BY <1>1, <2>1, <2>3, <2>5, <2>6
  <2> QED
      BY <2>3, <2>4, <2>7, <2>8 DEF ProvidedInv, Provides
<1> QED
    BY <1>8, <1>9, <1>10 DEF FunctionsInv

\* app.Use: the functions that the durable middleware hands over.
IdOfProvided(k) == <<provided[k].name, provided[k].binding.type>>
LEMMA ProvidedFunctions ==
    ASSUME ProvidedInv, NEW after \in RegisterProvided
    PROVE  /\ \A k \in 1..Len(provided) : IdOfProvided(k) \notin DOMAIN registered
           /\ \A j, k \in 1..Len(provided) : IdOfProvided(j) = IdOfProvided(k) => j = k
           /\ DOMAIN after = DOMAIN registered \cup {IdOfProvided(k) : k \in 1..Len(provided)}
           /\ \A f \in DOMAIN registered : after[f] = registered[f]
           /\ \A k \in 1..Len(provided) :
                 /\ FunctionId(after[IdOfProvided(k)]) = IdOfProvided(k)
                 /\ Sound(after[IdOfProvided(k)])
<1> DEFINE new(k) == NewFunction(provided[k].name, provided[k].handler, provided[k].binding, <<>>,
                                 registered)
           ids(k) == {FunctionId(rf) : rf \in new(k)}
           all == UNION {new(k) : k \in DOMAIN provided}
           added == [f \in {FunctionId(rf) : rf \in all} |->
                        CHOOSE rf \in all : FunctionId(rf) = f]
<1>1. /\ \A k \in DOMAIN provided : new(k) # {}
      /\ \A j, k \in DOMAIN provided : j # k => ids(j) # ids(k)
      /\ after = Merge(registered, added)
  <2> HIDE DEF Merge
  <2> QED
      BY DEF RegisterProvided
<1>2. DOMAIN provided = 1..Len(provided)
  <2> HIDE DEF Provisions
  <2> QED
      BY LenProperties DEF ProvidedInv
<1>3. OptionsOK(<<>>)
  <2>1. Len(<<>>) = 0 /\ DOMAIN <<>> = 1..0 /\ \A i \in 1..0 : FALSE
      OBVIOUS
  <2> QED
      BY <2>1 DEF OptionsOK, IsList
<1>4. ASSUME NEW k \in 1..Len(provided)
      PROVE  \A rf \in new(k) :
                /\ FunctionId(rf) = IdOfProvided(k) /\ FunctionId(rf) \notin DOMAIN registered
                /\ Sound(rf)
  <2>1. provided[k] \in Provisions
    <3> HIDE DEF Provisions
    <3> QED
        BY <1>4, ElementOfSeq DEF ProvidedInv
  <2>2. PICK m : provided[k].binding = ToBinding(m)
      BY <2>1 DEF Provisions
  <2> DEFINE b == provided[k].binding
  <2>2a. DOMAIN ToBinding(m) = BindingParts /\ ~IsGeneric(ToBinding(m))
      BY DEF ToBinding, BindingParts, IsGeneric, NoGeneric
  <2>3. DOMAIN b = BindingParts /\ ~IsGeneric(b)
      BY <2>2, <2>2a
  <2>4. ASSUME NEW rf \in new(k) PROVE IsFunctionOf(rf, provided[k].name, b, <<>>, registered)
    <3>1. rf \in NewFunction(provided[k].name, provided[k].handler, b, <<>>, registered)
        BY <2>4
    <3> HIDE DEF b, new
    <3> QED
        BY <1>3, <2>3, <3>1, NewFunctionFacts
  <2> QED
      BY <2>4 DEF IsFunctionOf, IdOfProvided
<1>5. DOMAIN added = {FunctionId(rf) : rf \in all}
    OBVIOUS
<1>6. ASSUME NEW f \in DOMAIN added PROVE added[f] \in all /\ FunctionId(added[f]) = f
  <2>1. \E rf \in all : FunctionId(rf) = f
      BY <1>6
  <2>2. added[f] = CHOOSE rf \in all : FunctionId(rf) = f
      BY <1>6
  <2> HIDE DEF all, added
  <2> QED
      BY <2>1, <2>2
<1> HIDE DEF new, added
<1>7. \A k \in 1..Len(provided) : ids(k) = {IdOfProvided(k)}
    BY <1>1, <1>2, <1>4
<1>8. {FunctionId(rf) : rf \in all} = {IdOfProvided(k) : k \in 1..Len(provided)}
  <2>1. ASSUME NEW rf \in all PROVE \E k \in 1..Len(provided) : FunctionId(rf) = IdOfProvided(k)
      BY <1>2, <1>4, <2>1
  <2>2. ASSUME NEW k \in 1..Len(provided) PROVE \E rf \in all : FunctionId(rf) = IdOfProvided(k)
      BY <1>1, <1>2, <1>4
  <2> HIDE DEF all
  <2> QED
      BY <2>1, <2>2
<1>9. \A rf \in all : Sound(rf)
    BY <1>2, <1>4
<1> HIDE DEF all
<1>10. /\ DOMAIN after = DOMAIN registered \cup DOMAIN added
       /\ \A f \in DOMAIN added : after[f] = added[f]
       /\ \A f \in DOMAIN registered : f \notin DOMAIN added => after[f] = registered[f]
    BY <1>1 DEF Merge
<1>11. \A k \in 1..Len(provided) : IdOfProvided(k) \notin DOMAIN registered
    BY <1>1, <1>2, <1>4
<1>12. \A j, k \in 1..Len(provided) : IdOfProvided(j) = IdOfProvided(k) => j = k
    BY <1>1, <1>2, <1>7
<1>13. \A f \in DOMAIN registered : f \notin DOMAIN added
    BY <1>5, <1>8, <1>11
<1>14. \A k \in 1..Len(provided) : IdOfProvided(k) \in DOMAIN added
    BY <1>5, <1>8
<1> QED
    BY <1>5, <1>6, <1>8, <1>9, <1>10, <1>11, <1>12, <1>13, <1>14

\* app.Use of the durable middleware: its functions join the others, and it is
\* sealed.
LEMMA DurableUseKeepsFunctions ==
    ASSUME ProgramTypeOK, FunctionsInv, NEW c \in Scenarios[scenario].calls, Returned(c),
           UsesDurable(c), registered' \in RegisterProvided, closed' = TRUE,
           UNCHANGED provided
    PROVE  FunctionsInv'
<1>0. PICK n, e : n = Len(program) + 1 /\ e = Logged(c, property)
    OBVIOUS
<1>1. /\ CallOK(c) /\ Len(program) \in Nat /\ Len(program') = n /\ program'[n] = e
      /\ n \in 1..n
      /\ \A k \in 1..Len(program) : k \in 1..n /\ program'[k] = program[k]
      /\ \A k \in 1..n : k \in 1..Len(program) \/ k = n
    BY <1>0, EntryLogged
<1>2. ~IsRegistering(e) /\ ~IsDurable(e) /\ UsesDurable(e)
    BY <1>0, <1>1, LoggedFacts DEF UsesDurable, IsRegistering, IsDurable
<1>3. PICK ids : ids = [k \in 1..Len(provided) |-> IdOfProvided(k)]
    OBVIOUS
<1>4. /\ \A k \in 1..Len(provided) : ids[k] \notin DOMAIN registered
      /\ \A j, k \in 1..Len(provided) : ids[j] = ids[k] => j = k
      /\ DOMAIN registered' = DOMAIN registered \cup {ids[k] : k \in 1..Len(provided)}
      /\ \A f \in DOMAIN registered : registered'[f] = registered[f]
      /\ \A k \in 1..Len(provided) :
            FunctionId(registered'[ids[k]]) = ids[k] /\ Sound(registered'[ids[k]])
  <2>1. /\ \A k \in 1..Len(provided) : IdOfProvided(k) \notin DOMAIN registered
        /\ \A j, k \in 1..Len(provided) : IdOfProvided(j) = IdOfProvided(k) => j = k
        /\ DOMAIN registered' = DOMAIN registered \cup {IdOfProvided(k) : k \in 1..Len(provided)}
        /\ \A f \in DOMAIN registered : registered'[f] = registered[f]
        /\ \A k \in 1..Len(provided) :
              /\ FunctionId(registered'[IdOfProvided(k)]) = IdOfProvided(k)
              /\ Sound(registered'[IdOfProvided(k)])
    <3>1. ProvidedInv
        BY DEF FunctionsInv
    <3>2. PICK after \in RegisterProvided : after = registered'
        OBVIOUS
    <3> QED
        BY <3>1, <3>2, ProvidedFunctions
  <2>2. \A k \in 1..Len(provided) : ids[k] = IdOfProvided(k)
      BY <1>3
  <2>3. {ids[k] : k \in 1..Len(provided)} = {IdOfProvided(k) : k \in 1..Len(provided)}
      BY <2>2
  <2> QED
      BY <2>1, <2>2, <2>3
<1>5. PICK at \in [1..Len(provided) -> 1..Len(program)] :
         /\ \A k \in 1..Len(provided) : Provides(k, at[k])
         /\ \A i \in 1..Len(program) :
               IsDurable(program[i]) => \E k \in 1..Len(provided) : at[k] = i
    BY DEF FunctionsInv, ProvidedInv
<1>6. \A k \in 1..Len(provided) : NameOf(program[at[k]]) = ids[k] /\ IsDurable(program[at[k]])
  <2>1. ASSUME NEW k \in 1..Len(provided)
        PROVE  NameOf(program[at[k]]) = ids[k] /\ IsDurable(program[at[k]])
    <3> DEFINE c0 == program[at[k]]
    <3>1. /\ IsDurable(c0) /\ provided[k].name = c0.name
          /\ provided[k].binding = ToBinding(DurableModels[c0.call])
        BY <1>5 DEF Provides
    <3> HIDE DEF c0
    <3>2. TypeOf(c0) = DurableModels[c0.call].type
        BY <3>1 DEF TypeOf, IsDurable
    <3>3. ToBinding(DurableModels[c0.call]).type = DurableModels[c0.call].type
        BY DEF ToBinding
    <3>4. NameOf(c0) = IdOfProvided(k)
        BY <3>1, <3>2, <3>3 DEF NameOf, IdOfProvided
    <3> QED
        BY <1>3, <3>1, <3>4 DEF c0
  <2> QED
      BY <2>1
<1>7. \A i \in 1..Len(program) :
         Made(i)' <=> IsRegistering(program[i]) \/ IsDurable(program[i])
  <2>1. ASSUME NEW i \in 1..Len(program)
        PROVE  Made(i)' <=> IsRegistering(program[i]) \/ IsDurable(program[i])
      BY <1>1 DEF Made
  <2> QED
      BY <2>1
<1>8. ~Made(n)'
    BY <1>1, <1>2 DEF Made
<1>9. \A i \in 1..Len(program) :
         IsRegistering(program[i]) => NameOf(program[i]) \in DOMAIN registered
    BY DEF FunctionsInv, NamesInv, Made
<1>10. NamesInv'
  <2>1. closed' \in BOOLEAN /\ (closed' <=> \E i \in 1..Len(program') : UsesDurable(program'[i]))
      BY <1>1, <1>2
  <2>2. ASSUME NEW i \in 1..Len(program), IsDurable(program[i])
        PROVE  \E k \in 1..Len(provided) : at[k] = i /\ NameOf(program[i]) = ids[k]
      BY <1>5, <1>6, <2>2
  <2>3. \A i \in 1..Len(program') : Made(i)' => NameOf(program'[i]) \in DOMAIN registered'
      BY <1>1, <1>4, <1>7, <1>8, <1>9, <2>2
  <2>4. \A f \in DOMAIN registered' :
           \E i \in 1..Len(program') : Made(i)' /\ NameOf(program'[i]) = f
    <3>1. ASSUME NEW f \in DOMAIN registered
          PROVE  \E i \in 1..Len(program') : Made(i)' /\ NameOf(program'[i]) = f
      <4>1. PICK i \in 1..Len(program) : Made(i) /\ NameOf(program[i]) = f
          BY DEF FunctionsInv, NamesInv
      <4>2. Made(i)'
          BY <1>7, <4>1 DEF Made
      <4> QED
          BY <1>1, <4>1, <4>2
    <3>2. ASSUME NEW k \in 1..Len(provided)
          PROVE  \E i \in 1..Len(program') : Made(i)' /\ NameOf(program'[i]) = ids[k]
      <4>1. /\ at[k] \in 1..Len(program) /\ Made(at[k])'
            /\ NameOf(program[at[k]]) = ids[k]
          BY <1>6, <1>7
      <4> QED
          BY <1>1, <4>1
    <3> QED
        BY <1>4, <3>1, <3>2
  <2>5. ASSUME NEW i \in 1..Len(program), NEW j \in 1..Len(program),
               NameOf(program[i]) = NameOf(program[j]),
               IsRegistering(program[i]) \/ IsDurable(program[i]),
               IsRegistering(program[j]) \/ IsDurable(program[j])
        PROVE  i = j
    <3>1. CASE IsRegistering(program[i]) /\ IsRegistering(program[j])
        BY <2>5, <3>1 DEF FunctionsInv, NamesInv, Made
    <3>2. CASE IsDurable(program[i]) /\ IsDurable(program[j])
        BY <1>4, <2>2, <2>5, <3>2
    <3>3. CASE \/ IsRegistering(program[i]) /\ IsDurable(program[j])
               \/ IsDurable(program[i]) /\ IsRegistering(program[j])
        BY <1>4, <1>9, <2>2, <2>5, <3>3
    <3> QED
        BY <2>5, <3>1, <3>2, <3>3
  <2>6. \A i, j \in 1..Len(program') :
           Made(i)' /\ Made(j)' /\ NameOf(program'[i]) = NameOf(program'[j]) => i = j
      BY <1>1, <1>7, <1>8, <2>5
  <2> QED
      BY <2>1, <2>3, <2>4, <2>6 DEF NamesInv
<1>11. RegisteredInv'
  <2>1. \A f \in DOMAIN registered' : FunctionId(registered'[f]) = f /\ Sound(registered'[f])
      BY <1>4 DEF FunctionsInv, RegisteredInv
  <2>2. \A i \in 1..Len(program') :
           IsRegistering(program'[i]) =>
               Faithful(program'[i], registered'[NameOf(program'[i])].bindings[1])
      BY <1>1, <1>2, <1>4, <1>9 DEF FunctionsInv, RegisteredInv
  <2> QED
      BY <2>1, <2>2 DEF RegisteredInv
<1>12. ProvidedInv'
    BY <1>1, <1>2, ProvidedKept DEF FunctionsInv
<1> QED
    BY <1>10, <1>11, <1>12 DEF FunctionsInv

\* What FunctionsInv and ToldInv are about.
LEMMA FunctionsUntouched ==
    ASSUME FunctionsInv, UNCHANGED <<program, registered, closed, provided>>
    PROVE  FunctionsInv'
<1>1. \A i \in 1..Len(program) : Made(i)' <=> Made(i)
  <2>1. ASSUME NEW i \in 1..Len(program) PROVE Made(i)' <=> Made(i)
      BY DEF Made
  <2> QED
      BY <2>1
<1>2. NamesInv'
  <2>1. closed' \in BOOLEAN /\ (closed' <=> \E i \in 1..Len(program') : UsesDurable(program'[i]))
      BY DEF FunctionsInv, NamesInv
  <2>2. /\ \A i \in 1..Len(program') : Made(i)' => NameOf(program'[i]) \in DOMAIN registered'
        /\ \A f \in DOMAIN registered' :
              \E i \in 1..Len(program') : Made(i)' /\ NameOf(program'[i]) = f
        /\ \A i, j \in 1..Len(program') :
              Made(i)' /\ Made(j)' /\ NameOf(program'[i]) = NameOf(program'[j]) => i = j
      BY <1>1 DEF FunctionsInv, NamesInv
  <2> QED
      BY <2>1, <2>2 DEF NamesInv
<1>3. RegisteredInv'
    BY DEF FunctionsInv, RegisteredInv
<1>4. ProvidedInv'
    BY DEF FunctionsInv, ProvidedInv, Provides
<1> QED
    BY <1>2, <1>3, <1>4 DEF FunctionsInv

\* Each call of main, whether it returns or panics.
LEMMA CallKeepsFunctions ==
    ASSUME ProgramTypeOK, FunctionsInv, ToldInv, NEW c \in Scenarios[scenario].calls, Call(c)
    PROVE  FunctionsInv' /\ ToldInv'
<1>1. stage = "main" /\ told' = told
    BY DEF Call
<1>2. ToldInv'
    BY <1>1 DEF ToldInv
<1>3. CASE PanicsOut
    BY <1>2, <1>3, FunctionsUntouched DEF PanicsOut, registryVars
<1>4. CASE CallRegister(c) /\ ~PanicsOut
  <2>1. ASSUME NEW new, Registers(c, new)
        PROVE  /\ \E rf \in new : registered' = With(registered, rf)
               /\ Returned(c) /\ UNCHANGED <<closed, provided>>
      BY <1>4, <2>1 DEF Registers
  <2>2. CASE c.call = "typed" /\ Registers(c, RegisterTyped(c))
    <3>1. PICK rf \in RegisterTyped(c) : registered' = With(registered, rf)
        BY <2>1, <2>2
    <3> QED
        BY <1>2, <2>1, <2>2, <3>1, RegisteringKeepsFunctions DEF IsRegistering
  <2>3. CASE c.call = "Blob" /\ Registers(c, RegisterBlob(c))
    <3>1. PICK rf \in RegisterBlob(c) : registered' = With(registered, rf)
        BY <2>1, <2>3
    <3> QED
        BY <1>2, <2>1, <2>3, <3>1, RegisteringKeepsFunctions DEF IsRegistering
  <2>4. CASE c.call = "GenericTrigger" /\ Registers(c, RegisterGeneric(c))
    <3>1. PICK rf \in RegisterGeneric(c) : registered' = With(registered, rf)
        BY <2>1, <2>4
    <3> QED
        BY <1>2, <2>1, <2>4, <3>1, RegisteringKeepsFunctions DEF IsRegistering
  <2> QED
      BY <1>4, <2>2, <2>3, <2>4 DEF CallRegister
<1>5. CASE CallRegisterClientFactory(c) /\ ~PanicsOut
  <2>1. Returned(c) /\ UNCHANGED <<registered, closed, provided>>
      BY <1>5 DEF CallRegisterClientFactory
  <2>2. ~IsRegistering(c) /\ ~IsDurable(c) /\ ~UsesDurable(c)
      BY <1>5 DEF CallRegisterClientFactory, IsRegistering, IsDurable, UsesDurable
  <2> QED
      BY <1>2, <2>1, <2>2, QuietCallKeepsFunctions
<1>6. CASE CallDurable(c) /\ ~PanicsOut
  <2>1. Returned(c)
      BY <1>6 DEF CallDurable
  <2>2. stage' # "panicked"
      BY <1>1, <2>1 DEF Returned
  <2> QED
      BY <1>2, <1>6, <2>1, <2>2, DurableCallKeepsFunctions
<1>7. CASE CallUse(c) /\ ~PanicsOut
  <2>1. Returned(c) /\ UNCHANGED provided /\ c.call = "Use"
      BY <1>7 DEF CallUse, registryVars
  <2>2. CASE c.middleware = "nil"
    <3>1. UNCHANGED <<registered, closed, provided>>
        BY <1>7, <2>2 DEF CallUse, registryVars
    <3>2. ~IsRegistering(c) /\ ~IsDurable(c) /\ ~UsesDurable(c)
        BY <2>1, <2>2 DEF IsRegistering, IsDurable, UsesDurable
    <3> QED
        BY <1>2, <2>1, <3>1, <3>2, QuietCallKeepsFunctions
  <2>3. CASE c.middleware \notin {"nil", "durable"}
    <3>1. closed' = Seal(c) /\ registered' = registered
        BY <1>7, <2>3 DEF CallUse
    <3>2. closed' = closed
        BY <2>3, <3>1 DEF Seal, FunctionsInv, NamesInv
    <3>3. ~IsRegistering(c) /\ ~IsDurable(c) /\ ~UsesDurable(c)
        BY <2>1, <2>3 DEF IsRegistering, IsDurable, UsesDurable
    <3> QED
        BY <1>2, <2>1, <3>1, <3>2, <3>3, QuietCallKeepsFunctions
  <2>4. CASE c.middleware = "durable"
    <3>1. closed' = Seal(c) /\ registered' \in RegisterProvided
        BY <1>7, <2>4 DEF CallUse
    <3>2. closed' = TRUE
        BY <2>4, <3>1 DEF Seal
    <3>3. UsesDurable(c)
        BY <2>1, <2>4 DEF UsesDurable
    <3> QED
        BY <1>2, <2>1, <3>1, <3>2, <3>3, DurableUseKeepsFunctions
  <2> QED
      BY <2>2, <2>3, <2>4
<1> QED
    BY <1>3, <1>4, <1>5, <1>6, <1>7 DEF Call

\* handleFunctionsMetadataRequest: what the host is told is what was asked.
LEMMA MetadataReports ==
    ASSUME ProgramTypeOK, FunctionsInv
    PROVE  Reported({Describe(registered[f]) : f \in DOMAIN registered})
<1> DEFINE fs == {Describe(registered[f]) : f \in DOMAIN registered}
<1>1. \A f \in DOMAIN registered : Describe(registered[f]).id = f
    BY DEF Describe, FunctionsInv, RegisteredInv
<1>2. \A d \in fs : d.id \in DOMAIN registered /\ d = Describe(registered[d.id])
    BY <1>1
<1>3. \A f \in DOMAIN registered : \E d \in fs : d.id = f
    BY <1>1
<1>4. ASSUME NEW i \in 1..Len(program), NEW d \in fs,
             IsRegistering(program[i]), d.id = NameOf(program[i])
      PROVE  SaysWhatWasAsked(program[i], d.raw[1])
  <2> DEFINE e == program[i]
             rf == registered[d.id]
  <2>1. Faithful(e, rf.bindings[1])
      BY <1>4 DEF FunctionsInv, RegisteredInv
  <2>2. e.call = "typed" => e.method \in DOMAIN TypedModels
    <3>1. e \in Entries
      <4> HIDE DEF Entries
      <4> QED
          BY ElementOfSeq DEF ProgramTypeOK
    <3>2. PICK c \in AllCalls : \E p : e = Logged(c, p)
      <4>1. \A c, p : Merge(c, [property |-> p]) = Logged(c, p)
          BY DEF Logged
      <4> HIDE DEF e
      <4> QED
          BY <3>1, <4>1 DEF Entries
    <3>3. CallOK(c)
        BY ScenariosAssumption DEF AllCalls
    <3> HIDE DEF e
    <3>4. CallOK(e)
        BY <3>2, <3>3, LoggedFacts
    <3> QED
        BY <3>4 DEF CallOK
  <2>3. 1 \in DOMAIN rf.bindings
      BY <1>2 DEF FunctionsInv, RegisteredInv, Sound
  <2>4. d = Describe(rf)
      BY <1>2
  <2> HIDE DEF e, rf
  <2>5. d.raw[1] = MarshalJSON(Current(rf.bindings[1]))
      BY <2>3, <2>4 DEF Describe
  <2>6. SaysWhatWasAsked(e, MarshalJSON(Current(rf.bindings[1])))
      BY <2>1, <2>2, FaithfulSays
  <2> QED
      BY <2>5, <2>6 DEF e
<1>5. \A d, e \in fs : d.id = e.id => d = e
  <2> HIDE DEF fs
  <2>1. ASSUME NEW d \in fs, NEW e \in fs, d.id = e.id PROVE d = e
      BY <1>2, <2>1
  <2> QED
      BY <2>1
<1> HIDE DEF fs
<1>6. Reported(fs)
    BY <1>2, <1>3, <1>4, <1>5 DEF Reported
<1> QED
    BY <1>6 DEF fs

\* Every step keeps what is known of the functions, and of what the host was told.
LEMMA FunctionsInvStep ==
    ASSUME CapabilitiesInv, FunctionsInv, ToldInv, [Next]_applicationVars
    PROVE  FunctionsInv' /\ ToldInv'
<1>0. ProgramTypeOK /\ CapabilitiesTold
    BY DEF CapabilitiesInv
<1>1. CASE UNCHANGED registrationVars
  <2>1. UNCHANGED <<program, registered, closed, provided, told, stage>>
      BY <1>1 DEF registrationVars, registryVars
  <2> QED
      BY <2>1, FunctionsUntouched DEF ToldInv, Reported
<1>2. CASE Main
  <2>1. ASSUME NEW c \in Scenarios[scenario].calls, Call(c) PROVE FunctionsInv' /\ ToldInv'
      BY <1>0, <2>1, CallKeepsFunctions
  <2>2. CASE CallerMutates
    <3>1. UNCHANGED <<program, registered, closed, provided, told, stage>>
        BY <2>2 DEF CallerMutates, registryVars
    <3> QED
        BY <3>1, FunctionsUntouched DEF ToldInv, Reported
  <2>3. CASE Start
    <3>1. stage = "main" /\ UNCHANGED <<program, registered, closed, provided, told>>
        BY <2>3 DEF Start, registryVars
    <3> QED
        BY <3>1, FunctionsUntouched DEF ToldInv
  <2> QED
      BY <1>2, <2>1, <2>2, <2>3 DEF Main
<1>3. CASE Control
  <2>1. UNCHANGED <<program, registered, closed, provided, stage>>
      BY <1>3 DEF Control, HandleWorkerInit, HandleFunctionsMetadata, HandleFunctionLoad,
                  registryVars
  <2>2. FunctionsInv'
      BY <2>1, FunctionsUntouched
  <2>3. CASE HandleWorkerInit
    <3>1. \E caps : told' = [told EXCEPT !.capabilities = caps]
        BY <2>3 DEF HandleWorkerInit
    <3>2. /\ told'.rounds = told.rounds /\ told'.failed = told.failed
          /\ told'.functions = told.functions
        BY <1>0, <3>1 DEF ProgramTypeOK
    <3> QED
        BY <2>1, <2>2, <3>2 DEF ToldInv, Reported
  <2>4. CASE HandleFunctionsMetadata
    <3>1. stage = "serving"
        BY <1>0, <2>4 DEF HandleFunctionsMetadata, CapabilitiesTold
    <3>2. PICK fails :
             told' = [told EXCEPT !.rounds = @ + 1, !.failed = fails,
                         !.functions = IF fails THEN {}
                                       ELSE {Describe(registered[f]) : f \in DOMAIN registered}]
        BY <2>4 DEF HandleFunctionsMetadata
    <3> DEFINE fs == {Describe(registered[f]) : f \in DOMAIN registered}
    <3>3. told'.failed = fails /\ (~fails => told'.functions = fs)
        BY <1>0, <3>2 DEF ProgramTypeOK
    <3>4. Reported(fs)
        BY <1>0, MetadataReports
    <3> HIDE DEF fs
    <3>5. ~told'.failed => Reported(told'.functions)
        BY <3>3, <3>4
    <3> QED
        BY <2>1, <2>2, <3>1, <3>5 DEF ToldInv, Reported
  <2>5. ASSUME NEW f, HandleFunctionLoad(f) PROVE ToldInv'
      BY <2>1, <2>5 DEF HandleFunctionLoad, ToldInv, Reported
  <2> QED
      BY <1>3, <2>2, <2>3, <2>4, <2>5 DEF Control
<1>4. CASE Site \/ Invocation \/ Answers \/ Host \/ UNCHANGED applicationVars
    BY <1>1, <1>4 DEF Site, Invocation, Answers, Host, applicationVars
<1> QED
    BY <1>2, <1>3, <1>4 DEF Next

\* App and the durable middleware: whatever main calls, in any order, a
\* metadata response that does not fail names every function that main made
\* once, and says of its trigger what its call asked for.
THEOREM FunctionsAreThoseRegistered == Spec => []FunctionsAsRegistered
<1>1. ASSUME ProgramTypeOK, FunctionsInv, ToldInv PROVE FunctionsAsRegistered
  <2> SUFFICES ASSUME told.rounds > 0, ~told.failed PROVE FunctionsAsRegistered
      BY DEF FunctionsAsRegistered
  <2> DEFINE fs == told.functions
             used == \E i \in DOMAIN program :
                         program[i].call = "Use" /\ program[i].middleware = "durable"
             made == {i \in DOMAIN program :
                         \/ IsRegistering(program[i])
                         \/ used /\ IsDurable(program[i])}
             of(i) == {d \in fs : d.id = <<program[i].name, TypeOf(program[i])>>}
  <2>1. DOMAIN program = 1..Len(program) /\ Len(program) \in Nat
    <3> HIDE DEF Entries
    <3> QED
        BY <1>1, LenProperties DEF ProgramTypeOK
  <2>2. used <=> closed
      BY <1>1, <2>1 DEF FunctionsInv, NamesInv, UsesDurable
  <2>3. made = {i \in 1..Len(program) : Made(i)}
    <3> HIDE DEF used
    <3>1. ASSUME NEW i \in 1..Len(program)
          PROVE  Made(i) <=> (IsRegistering(program[i]) \/ (used /\ IsDurable(program[i])))
        BY <2>2 DEF Made
    <3> QED
        BY <2>1, <3>1
  <2>4. Reported(fs)
      BY <1>1 DEF ToldInv
  <2>5. \A i : of(i) = {d \in fs : d.id = NameOf(program[i])}
      BY DEF NameOf
  <2> HIDE DEF fs, used, made, of
  <2>6. ASSUME NEW i \in made PROVE \E d \in fs : d.id = NameOf(program[i]) /\ of(i) = {d}
    <3>1. NameOf(program[i]) \in DOMAIN registered
        BY <1>1, <2>3 DEF FunctionsInv, NamesInv
    <3>2. PICK d \in fs : d.id = NameOf(program[i])
        BY <2>4, <3>1 DEF Reported
    <3>3. \A x \in fs : x.id = d.id => x = d
        BY <2>4 DEF Reported
    <3> QED
        BY <2>5, <3>2, <3>3
  <2>7. \A i \in made : Cardinality(of(i)) = 1
      BY <2>6, FS_Singleton
  <2>8. Cardinality(fs) = Cardinality(made)
    <3>1. IsFiniteSet(made)
      <4>1. IsFiniteSet(1..Len(program)) /\ made \in SUBSET (1..Len(program))
          BY <2>1, <2>3, FS_Interval
      <4> QED
          BY <4>1, FS_Subset
    <3> DEFINE to == [i \in made |-> CHOOSE d \in fs : d.id = NameOf(program[i])]
    <3>2. \A i \in made : to[i] \in fs /\ to[i].id = NameOf(program[i])
        BY <2>6
    <3>3. to \in [made -> fs]
        BY <3>2
    <3> HIDE DEF to
    <3>4. \A i, j \in made : to[i] = to[j] => i = j
        BY <1>1, <2>3, <3>2 DEF FunctionsInv, NamesInv
    <3>5. ASSUME NEW d \in fs PROVE \E i \in made : to[i] = d
      <4>1. d.id \in DOMAIN registered
          BY <2>4 DEF Reported
      <4>2. PICK i \in made : NameOf(program[i]) = d.id
          BY <1>1, <2>3, <4>1 DEF FunctionsInv, NamesInv
      <4> QED
          BY <2>4, <3>2, <4>2 DEF Reported
    <3>6. ExistsBijection(made, fs)
      <4>1. to \in Injection(made, fs)
          BY <3>3, <3>4 DEF Injection, IsInjective
      <4>2. to \in Surjection(made, fs)
          BY <3>3, <3>5 DEF Surjection
      <4> QED
          BY <4>1, <4>2 DEF ExistsBijection, Bijection
    <3> QED
        BY <3>1, <3>6, FS_Bijection
  <2>9. ASSUME NEW i \in made, IsRegistering(program[i]), NEW d \in of(i)
        PROVE  SaysWhatWasAsked(program[i], d.raw[1])
      BY <2>3, <2>4, <2>5, <2>9 DEF Reported
  <2> QED
      BY <2>7, <2>8, <2>9 DEF FunctionsAsRegistered, fs, used, made, of
<1>2. Init => CapabilitiesInv /\ FunctionsInv /\ ToldInv
    BY CapabilitiesInvInit, FunctionsInvInit
<1>3. CapabilitiesInv /\ FunctionsInv /\ ToldInv /\ [Next]_applicationVars
      => (CapabilitiesInv /\ FunctionsInv /\ ToldInv)'
    BY CapabilitiesInvStep, FunctionsInvStep
<1>4. CapabilitiesInv /\ FunctionsInv /\ ToldInv => FunctionsAsRegistered
    BY <1>1 DEF CapabilitiesInv
<1> QED
    BY <1>2, <1>3, <1>4, PTL DEF Spec

\* handleWorkerInitRequest and handleFunctionsMetadataRequest: for any calls of
\* main in any order, any middlewares and any host.json, what the host learns of
\* the application is what main set up.
THEOREM HostIsToldTheTruth == Spec => []HostToldTheTruth
    BY FunctionsAreThoseRegistered, CapabilitiesAreThoseUsed, ConfigurationIsFrozen, PTL
    DEF HostToldTheTruth
=============================================================================
