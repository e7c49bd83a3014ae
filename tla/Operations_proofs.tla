-------------------------- MODULE Operations_proofs ---------------------------
(***************************************************************************)
(* Proofs about ScheduledRun and Backup for any number of invocations,     *)
(* registrations and backups, any timeout, exit code, digest and time.     *)
(***************************************************************************)
EXTENDS ScheduledRun, Backup, TLAPS

USE ScheduleAssumption

-----------------------------------------------------------------------------
(* The wrapper.                                                            *)

\* What became of the cycle of a wrapper, and the exit code this stands for.
Exit(w) == CASE w.cycle = "KILLED" -> ProcessTimeoutExit
             [] w.cycle = "NOT_STARTED" -> ProcessExecutionErrorExit
             [] w.cycle = "RETURNED" -> w.code

\* Where a wrapper stands says what became of its cycle.
WrapperTrue ==
    \A i \in Invocation :
        LET w == wrapper[i]
        IN  /\ w.pc \in {"READY", "VALIDATE"} => w.cycle = "NONE"
            /\ w.pc = "CYCLE" => w.cycle = "RUNNING"
            /\ w.pc \in {"STATUS", "PUBLISH"} =>
                  w.cycle \in {"KILLED", "NOT_STARTED", "RETURNED"} /\ w.exit = Exit(w)
            /\ w.cycle = "RETURNED" => w.code \in CycleExit
            /\ w.pc # "ENDED" => \A e \in envelope : e.invocation # i

\* EnvelopesTellTheCycle in parts.
Told(e, w, code) ==
    /\ w.pc = "ENDED" /\ code \in {e.exit, UncaughtExit}
    /\ e.timedOut <=> w.cycle = "KILLED"
    /\ e.exit = Exit(w)

Excused(w, code) ==
    \/ code = ConfigurationErrorExit /\ w.cycle = "NONE"
    \/ code = UncaughtExit

Envelopes ==
    /\ \A e \in envelope : Told(e, wrapper[e.invocation], returned[e.invocation])
    /\ \A e, f \in envelope : f.invocation = e.invocation => f = e
    /\ \A i \in Invocation : wrapper[i].pc = "ENDED" =>
           (\E e \in envelope : e.invocation = i) \/ Excused(wrapper[i], returned[i])

LEMMA EnvelopesInParts == Envelopes => EnvelopesTellTheCycle
BY Zenon DEF Envelopes, EnvelopesTellTheCycle, Told, Excused, Exit, At

ScheduleInv == ScheduleTypeOK /\ WrapperTrue /\ Envelopes /\ RegistrationTrue

StepOf(i) ==
    \/ Start(i) \/ Refuse(i) \/ Launch(i) \/ LaunchFails(i) \/ CycleEnds(i)
    \/ CycleTimesOut(i) \/ AskStatus(i) \/ PublishEnvelope(i) \/ PublishFails(i)
    \/ TaskLimit(i)

ExitCodes == {ProcessTimeoutExit, ProcessExecutionErrorExit, ConfigurationErrorExit, UncaughtExit}

LEMMA ExitCodesTyped == ExitCodes \subseteq Nat
BY DEF ExitCodes, ProcessTimeoutExit, ProcessExecutionErrorExit, ConfigurationErrorExit, UncaughtExit

\* The values of a wrapper's fields, and that a wrapper stays one when one of them is replaced.
Pcs == {"READY", "VALIDATE", "CYCLE", "STATUS", "PUBLISH", "ENDED", "TERMINATED"}
Cycles == {"NONE", "RUNNING", "RETURNED", "KILLED", "NOT_STARTED"}

LEMMA FieldsTyped ==
    ASSUME NEW w \in Wrapper
    PROVE  /\ \A pc \in Pcs : [w EXCEPT !.pc = pc] \in Wrapper
           /\ \A t \in 0..LastTick : [w EXCEPT !.started = t] \in Wrapper
           /\ \A t \in 0..LastTick : [w EXCEPT !.launched = t] \in Wrapper
           /\ \A c \in Cycles : [w EXCEPT !.cycle = c] \in Wrapper
           /\ \A e \in CycleExit : [w EXCEPT !.code = e] \in Wrapper
           /\ \A e \in Nat : [w EXCEPT !.exit = e] \in Wrapper
BY DEF Wrapper, Pcs, Cycles

\* What a step makes of the wrapper that takes it.
Validated(w) == [w EXCEPT !.pc = "VALIDATE", !.started = tick]
Launched(w) == [w EXCEPT !.pc = "CYCLE", !.launched = tick, !.cycle = "RUNNING"]
Returned(w, e) == [Ended(w, "RETURNED", e) EXCEPT !.code = e]
Went(w, pc) == [w EXCEPT !.pc = pc]

Successor(i, w) ==
    \/ At(i, "READY") /\ w = Validated(wrapper[i])
    \/ At(i, "VALIDATE") /\ w = Went(wrapper[i], "ENDED")
    \/ At(i, "VALIDATE") /\ w = Launched(wrapper[i])
    \/ At(i, "VALIDATE") /\ w = Ended(wrapper[i], "NOT_STARTED", ProcessExecutionErrorExit)
    \/ At(i, "CYCLE") /\ \E e \in CycleExit : w = Returned(wrapper[i], e)
    \/ At(i, "CYCLE") /\ w = Ended(wrapper[i], "KILLED", ProcessTimeoutExit)
    \/ At(i, "STATUS") /\ w = Went(wrapper[i], "PUBLISH")
    \/ At(i, "PUBLISH") /\ w = Went(wrapper[i], "ENDED")
    \/ wrapper[i].pc \in {"VALIDATE", "CYCLE", "STATUS", "PUBLISH"} /\ w = Terminated(wrapper[i])

\* A step writes the locals of one wrapper.
LEMMA OneWritten ==
    ASSUME ScheduleTypeOK, NEW i \in Invocation, NEW w, wrapper' = [wrapper EXCEPT ![i] = w],
           UNCHANGED <<tick, task, registrar>>, Successor(i, w)
    PROVE  /\ UNCHANGED <<tick, task, registrar>>
           /\ Successor(i, wrapper'[i])
           /\ wrapper' = [wrapper EXCEPT ![i] = wrapper'[i]]
<1>1. wrapper'[i] = w
  BY DEF ScheduleTypeOK
<1> QED
  BY <1>1

LEMMA StepSucceeds ==
    ASSUME NEW i \in Invocation, StepOf(i), ScheduleTypeOK
    PROVE  /\ UNCHANGED <<tick, task, registrar>>
           /\ Successor(i, wrapper'[i])
           /\ wrapper' = [wrapper EXCEPT ![i] = wrapper'[i]]
<1> DEFINE Written == \E w : /\ wrapper' = [wrapper EXCEPT ![i] = w]
                             /\ UNCHANGED <<tick, task, registrar>> /\ Successor(i, w)
           v == wrapper[i]
<1>1. ASSUME Start(i) PROVE Written
  <2>1. At(i, "READY") /\ wrapper' = [wrapper EXCEPT ![i] = Validated(v)]
    BY <1>1 DEF Start, Validated
  <2> QED
    BY <1>1, <2>1 DEF Start, Successor
<1>2. ASSUME Refuse(i) PROVE Written
  <2>1. At(i, "VALIDATE") /\ wrapper' = [wrapper EXCEPT ![i] = Went(v, "ENDED")]
    BY <1>2 DEF Refuse, Went
  <2> QED
    BY <1>2, <2>1 DEF Refuse, Successor
<1>3. ASSUME Launch(i) PROVE Written
  <2>1. At(i, "VALIDATE") /\ wrapper' = [wrapper EXCEPT ![i] = Launched(v)]
    BY <1>3 DEF Launch, Launched
  <2> QED
    BY <1>3, <2>1 DEF Launch, Successor
<1>4. ASSUME LaunchFails(i) PROVE Written
  BY <1>4 DEF LaunchFails, Successor
<1>5. ASSUME CycleEnds(i) PROVE Written
  <2>1. PICK e \in CycleExit :
            wrapper' = [wrapper EXCEPT ![i] = [Ended(@, "RETURNED", e) EXCEPT !.code = e]]
    BY <1>5 DEF CycleEnds
  <2>2. wrapper' = [wrapper EXCEPT ![i] = Returned(v, e)]
    BY <2>1 DEF Returned
  <2>3. At(i, "CYCLE") /\ UNCHANGED <<tick, task, registrar>>
    BY <1>5 DEF CycleEnds
  <2> QED
    BY <2>2, <2>3 DEF Successor
<1>6. ASSUME CycleTimesOut(i) PROVE Written
  BY <1>6 DEF CycleTimesOut, Successor
<1>7. ASSUME AskStatus(i) PROVE Written
  <2>1. At(i, "STATUS") /\ wrapper' = [wrapper EXCEPT ![i] = Went(v, "PUBLISH")]
    BY <1>7 DEF AskStatus, Went
  <2> QED
    BY <1>7, <2>1 DEF AskStatus, Successor
<1>8. ASSUME PublishEnvelope(i) PROVE Written
  <2>1. At(i, "PUBLISH") /\ wrapper' = [wrapper EXCEPT ![i] = Went(v, "ENDED")]
    BY <1>8 DEF PublishEnvelope, Went
  <2> QED
    BY <1>8, <2>1 DEF PublishEnvelope, Successor
<1>9. ASSUME PublishFails(i) PROVE Written
  <2>1. At(i, "PUBLISH") /\ wrapper' = [wrapper EXCEPT ![i] = Went(v, "ENDED")]
    BY <1>9 DEF PublishFails, Went
  <2> QED
    BY <1>9, <2>1 DEF PublishFails, Successor
<1>10. ASSUME TaskLimit(i) PROVE Written
  BY <1>10 DEF TaskLimit, Successor
<1>11. Written
  <2> HIDE DEF Written
  <2> QED
    BY <1>1, <1>2, <1>3, <1>4, <1>5, <1>6, <1>7, <1>8, <1>9, <1>10 DEF StepOf
<1> QED
  BY <1>11, OneWritten

LEMMA SuccessorTyped ==
    ASSUME ScheduleTypeOK, NEW i \in Invocation, NEW w, Successor(i, w)
    PROVE  w \in Wrapper
<1> DEFINE v == wrapper[i]
<1>1. /\ tick \in 0..LastTick /\ v \in Wrapper
      /\ ProcessTimeoutExit \in Nat /\ ProcessExecutionErrorExit \in Nat /\ CycleExit \subseteq Nat
  BY DEF ScheduleTypeOK, ProcessTimeoutExit, ProcessExecutionErrorExit
<1> HIDE DEF v
<1>2. ASSUME NEW pc \in Pcs PROVE [v EXCEPT !.pc = pc] \in Wrapper
  BY <1>1, FieldsTyped
<1>3. ASSUME NEW c \in Cycles, NEW e \in Nat PROVE Ended(v, c, e) \in Wrapper
  <2> DEFINE w1 == [v EXCEPT !.pc = "STATUS"]
             w2 == [w1 EXCEPT !.cycle = c]
  <2>1. w1 \in Wrapper
    BY <1>2 DEF Pcs
  <2> HIDE DEF w1
  <2>2. w2 \in Wrapper
    BY <2>1, FieldsTyped
  <2> HIDE DEF w2
  <2>3. [w2 EXCEPT !.exit = e] \in Wrapper
    BY <2>2, FieldsTyped
  <2> QED
    BY <2>3, Zenon DEF Ended, w1, w2
<1>4. ASSUME NEW e \in CycleExit PROVE Returned(v, e) \in Wrapper
  <2>1. Ended(v, "RETURNED", e) \in Wrapper
    BY <1>1, <1>3 DEF Cycles
  <2> QED
    BY <2>1, FieldsTyped DEF Returned
<1>5. Validated(v) \in Wrapper
  <2> DEFINE w1 == [v EXCEPT !.pc = "VALIDATE"]
  <2>1. w1 \in Wrapper
    BY <1>2 DEF Pcs
  <2> HIDE DEF w1
  <2>2. [w1 EXCEPT !.started = tick] \in Wrapper
    BY <1>1, <2>1, FieldsTyped
  <2> QED
    BY <2>2, Zenon DEF Validated, w1
<1>6. Went(v, "ENDED") \in Wrapper /\ Went(v, "PUBLISH") \in Wrapper
  BY <1>2 DEF Went, Pcs
<1>7. Launched(v) \in Wrapper
  <2> DEFINE w1 == [v EXCEPT !.pc = "CYCLE"]
             w2 == [w1 EXCEPT !.launched = tick]
  <2>1. w1 \in Wrapper
    BY <1>2 DEF Pcs
  <2> HIDE DEF w1
  <2>2. w2 \in Wrapper
    BY <1>1, <2>1, FieldsTyped
  <2> HIDE DEF w2
  <2>3. [w2 EXCEPT !.cycle = "RUNNING"] \in Wrapper
    BY <2>2, FieldsTyped DEF Cycles
  <2> QED
    BY <2>3, Zenon DEF Launched, w1, w2
<1>8. /\ Ended(v, "NOT_STARTED", ProcessExecutionErrorExit) \in Wrapper
      /\ Ended(v, "KILLED", ProcessTimeoutExit) \in Wrapper
  <2>1. "NOT_STARTED" \in Cycles /\ "KILLED" \in Cycles
    BY DEF Cycles
  <2> QED
    BY <1>1, <1>3, <2>1, Zenon
<1>9. Terminated(v) \in Wrapper
  <2> DEFINE w1 == [v EXCEPT !.pc = "TERMINATED"]
             c == IF v.cycle = "RUNNING" THEN "KILLED" ELSE v.cycle
  <2>1. w1 \in Wrapper
    BY <1>2 DEF Pcs
  <2>2. c \in Cycles
    BY <1>1 DEF Wrapper, Cycles
  <2> HIDE DEF w1, c
  <2>3. [w1 EXCEPT !.cycle = c] \in Wrapper
    BY <2>1, <2>2, FieldsTyped
  <2> QED
    BY <2>3, Zenon DEF Terminated, w1, c
<1> QED
  BY <1>4, <1>5, <1>6, <1>7, <1>8, <1>9 DEF Successor, v

-----------------------------------------------------------------------------
(* The envelopes.                                                          *)

LEMMA LocalsTrue ==
    ASSUME ScheduleInv, NEW i \in Invocation, NEW w, Successor(i, w)
    PROVE  /\ w.pc \in {"READY", "VALIDATE"} => w.cycle = "NONE"
           /\ w.pc = "CYCLE" => w.cycle = "RUNNING"
           /\ w.pc \in {"STATUS", "PUBLISH"} =>
                  w.cycle \in {"KILLED", "NOT_STARTED", "RETURNED"} /\ w.exit = Exit(w)
           /\ w.cycle = "RETURNED" => w.code \in CycleExit
<1> DEFINE v == wrapper[i]
           Fits(x) == /\ x.pc \in {"READY", "VALIDATE"} => x.cycle = "NONE"
                      /\ x.pc = "CYCLE" => x.cycle = "RUNNING"
                      /\ x.pc \in {"STATUS", "PUBLISH"} =>
                             x.cycle \in {"KILLED", "NOT_STARTED", "RETURNED"} /\ x.exit = Exit(x)
                      /\ x.cycle = "RETURNED" => x.code \in CycleExit
<1>1. v \in Wrapper /\ Fits(v)
  BY DEF ScheduleInv, ScheduleTypeOK, WrapperTrue
<1> HIDE DEF v
<1>2. ASSUME v.pc = "READY" PROVE Fits(Validated(v))
  <2>1. Validated(v).pc = "VALIDATE" /\ Validated(v).cycle = v.cycle
    BY <1>1 DEF Validated, Wrapper
  <2> QED
    BY <1>1, <1>2, <2>1
<1>3. ASSUME v.pc \in {"VALIDATE", "PUBLISH"} PROVE Fits(Went(v, "ENDED"))
  <2>1. /\ Went(v, "ENDED").pc = "ENDED" /\ Went(v, "ENDED").cycle = v.cycle
        /\ Went(v, "ENDED").code = v.code
    BY <1>1 DEF Went, Wrapper
  <2> QED
    BY <1>1, <2>1
<1>4. Fits(Launched(v))
  <2>1. Launched(v).pc = "CYCLE" /\ Launched(v).cycle = "RUNNING"
    BY <1>1 DEF Launched, Wrapper
  <2> QED
    BY <2>1
<1>5. ASSUME NEW c, NEW e
      PROVE  Ended(v, c, e).pc = "STATUS" /\ Ended(v, c, e).cycle = c /\ Ended(v, c, e).exit = e
  BY <1>1 DEF Wrapper, Ended
<1>6. ASSUME NEW e \in CycleExit PROVE Fits(Returned(v, e))
  <2>1. /\ Returned(v, e).pc = "STATUS" /\ Returned(v, e).cycle = "RETURNED"
        /\ Returned(v, e).code = e /\ Returned(v, e).exit = e
    BY <1>1 DEF Wrapper, Ended, Returned
  <2> QED
    BY <2>1 DEF Exit
<1>7. ASSUME v.pc = "STATUS" PROVE Fits(Went(v, "PUBLISH"))
  <2> DEFINE w1 == Went(v, "PUBLISH")
  <2>1. w1.pc = "PUBLISH" /\ w1.cycle = v.cycle /\ w1.exit = v.exit /\ w1.code = v.code
    BY <1>1 DEF Went, Wrapper
  <2> HIDE DEF w1
  <2>2. Exit(w1) = Exit(v)
    BY <2>1 DEF Exit
  <2>3. Fits(w1)
    BY <1>1, <1>7, <2>1, <2>2
  <2> QED
    BY <2>3 DEF w1
<1>8. Fits(Terminated(v))
  <2> DEFINE w1 == Terminated(v)
  <2>1. /\ w1.pc = "TERMINATED" /\ w1.code = v.code
        /\ w1.cycle = IF v.cycle = "RUNNING" THEN "KILLED" ELSE v.cycle
    BY <1>1 DEF Wrapper, Terminated
  <2> HIDE DEF w1
  <2>2. Fits(w1)
    BY <1>1, <2>1
  <2> QED
    BY <2>2 DEF w1
<1>9. /\ Fits(Ended(v, "KILLED", ProcessTimeoutExit))
      /\ Fits(Ended(v, "NOT_STARTED", ProcessExecutionErrorExit))
  BY <1>5 DEF Exit
<1> HIDE DEF Fits
<1>10. Fits(w)
  BY <1>2, <1>3, <1>4, <1>6, <1>7, <1>8, <1>9 DEF Successor, At, v
<1> QED
  BY <1>10 DEF Fits

LEMMA WrapperKeeps ==
    ASSUME ScheduleInv, NEW i \in Invocation, StepOf(i)
    PROVE  ScheduleInv'
<1> USE DEF ScheduleInv
<1>1. /\ UNCHANGED <<tick, task, registrar>>
      /\ Successor(i, wrapper'[i]) /\ wrapper'[i] \in Wrapper
      /\ wrapper' = [wrapper EXCEPT ![i] = wrapper'[i]]
  BY StepSucceeds, SuccessorTyped
<1>2. /\ wrapper' \in [Invocation -> Wrapper]
      /\ \A j \in Invocation : j # i => wrapper'[j] = wrapper[j]
  BY <1>1 DEF ScheduleTypeOK
<1>3. RegistrationTrue'
  BY <1>1 DEF RegistrationTrue
<1>4. /\ wrapper[i].pc # "ENDED"
      /\ \A e \in envelope : e.invocation \in Invocation /\ e.invocation # i
  BY <1>1 DEF Successor, At, WrapperTrue, ScheduleTypeOK, Envelope
<1>5. CASE PublishEnvelope(i)
  <2>1. PICK captured \in BOOLEAN :
            envelope' = envelope \cup {[invocation |-> i, exit |-> wrapper[i].exit,
                            timedOut |-> wrapper[i].cycle = "KILLED", status |-> captured]}
    BY <1>5 DEF PublishEnvelope
  <2> DEFINE new == [invocation |-> i, exit |-> wrapper[i].exit,
                     timedOut |-> wrapper[i].cycle = "KILLED", status |-> captured]
  <2>2. /\ wrapper[i].cycle \in {"KILLED", "NOT_STARTED", "RETURNED"}
        /\ wrapper[i].exit = Exit(wrapper[i])
        /\ wrapper[i].cycle = "RETURNED" => wrapper[i].code \in CycleExit
        /\ \E e \in {wrapper[i].exit, UncaughtExit} : returned' = [returned EXCEPT ![i] = e]
        /\ wrapper' = [wrapper EXCEPT ![i].pc = "ENDED"]
    BY <1>5 DEF PublishEnvelope, WrapperTrue, At
  <2>3. wrapper[i].exit \in Nat /\ UncaughtExit \in Nat
    BY <2>2 DEF Exit, ProcessTimeoutExit, ProcessExecutionErrorExit, UncaughtExit
  <2>4. wrapper'[i].pc = "ENDED" /\ wrapper'[i].cycle = wrapper[i].cycle
        /\ wrapper'[i].code = wrapper[i].code /\ wrapper'[i].exit = wrapper[i].exit
    BY <2>2 DEF ScheduleTypeOK, Wrapper
  <2>5. new \in Envelope
    BY <2>3 DEF Envelope
  <2>6. /\ returned'[i] \in {wrapper[i].exit, UncaughtExit}
        /\ \A j \in Invocation : j # i => returned'[j] = returned[j]
        /\ returned' \in [Invocation -> Nat \cup {None}]
    BY <2>2, <2>3 DEF ScheduleTypeOK
  <2>7. ScheduleTypeOK'
    BY <1>1, <1>2, <2>1, <2>5, <2>6 DEF ScheduleTypeOK
  <2>8. WrapperTrue'
    <3> SUFFICES ASSUME NEW j \in Invocation
                 PROVE  LET w == wrapper'[j]
                        IN  /\ w.pc \in {"READY", "VALIDATE"} => w.cycle = "NONE"
                            /\ w.pc = "CYCLE" => w.cycle = "RUNNING"
                            /\ w.pc \in {"STATUS", "PUBLISH"} =>
                                  w.cycle \in {"KILLED", "NOT_STARTED", "RETURNED"} /\ w.exit = Exit(w)
                            /\ w.cycle = "RETURNED" => w.code \in CycleExit
                            /\ w.pc # "ENDED" => \A e \in envelope' : e.invocation # j
      BY DEF WrapperTrue
    <3>1. CASE j = i
      BY <2>2, <2>4, <3>1
    <3>2. CASE j # i
      BY <1>2, <2>1, <3>2 DEF WrapperTrue
    <3> QED
      BY <3>1, <3>2
  <2>9. Envelopes'
    <3>1. \A e \in envelope : Told(e, wrapper'[e.invocation], returned'[e.invocation])
      BY <1>2, <1>4, <2>6 DEF Envelopes
    <3>2. Told(new, wrapper'[i], returned'[i])
      <4>1. Exit(wrapper'[i]) = Exit(wrapper[i])
        BY <2>4 DEF Exit
      <4> QED
        BY <2>2, <2>4, <2>6, <4>1 DEF Told
    <3>3. \A e, f \in envelope' : f.invocation = e.invocation => f = e
      BY <1>4, <2>1 DEF Envelopes
    <3>4. new \in envelope' /\ new.invocation = i
      BY <2>1
    <3> HIDE DEF new
    <3>5. ASSUME NEW j \in Invocation, wrapper'[j].pc = "ENDED"
          PROVE  (\E e \in envelope' : e.invocation = j) \/ Excused(wrapper'[j], returned'[j])
      <4>1. CASE j = i
        BY <3>4, <4>1
      <4>2. CASE j # i
        <5>1. wrapper'[j] = wrapper[j] /\ returned'[j] = returned[j] /\ envelope \subseteq envelope'
          BY <1>2, <2>1, <2>6, <4>2
        <5> QED
          BY <3>5, <5>1 DEF Envelopes
      <4> QED
        BY <4>1, <4>2
    <3>6. \A e \in envelope' : Told(e, wrapper'[e.invocation], returned'[e.invocation])
      BY <2>1, <3>1, <3>2, <3>4 DEF new
    <3> QED
      BY <3>3, <3>5, <3>6 DEF Envelopes
  <2> QED
    BY <1>3, <2>7, <2>8, <2>9
<1>6. CASE ~PublishEnvelope(i)
  <2>1. envelope' = envelope
    BY <1>6 DEF StepOf, Start, Refuse, Launch, LaunchFails, CycleEnds, CycleTimesOut, AskStatus,
                PublishFails, TaskLimit
  <2>2. /\ \A j \in Invocation : j # i => returned'[j] = returned[j]
        /\ returned' \in [Invocation -> Nat \cup {None}]
        /\ wrapper'[i].pc = "ENDED" =>
              Excused(wrapper'[i], returned'[i])
    <3>1. CASE Refuse(i)
      <4>1. wrapper'[i].cycle = "NONE" /\ ExitCodes \subseteq Nat
        BY <3>1, ExitCodesTyped DEF Refuse, ScheduleTypeOK, Wrapper, WrapperTrue, At
      <4> QED
        BY <3>1, <4>1 DEF Refuse, ScheduleTypeOK, Excused, ExitCodes
    <3>2. CASE PublishFails(i)
      BY <3>2, ExitCodesTyped DEF PublishFails, ScheduleTypeOK, ExitCodes, Excused
    <3>3. ASSUME UNCHANGED returned, wrapper'[i].pc # "ENDED"
          PROVE  /\ \A j \in Invocation : j # i => returned'[j] = returned[j]
                 /\ returned' \in [Invocation -> Nat \cup {None}]
      BY <3>3 DEF ScheduleTypeOK
    <3>4. Start(i) => UNCHANGED returned /\ wrapper'[i].pc # "ENDED"
      BY DEF Start, ScheduleTypeOK
    <3>5. Launch(i) => UNCHANGED returned /\ wrapper'[i].pc # "ENDED"
      BY DEF Launch, ScheduleTypeOK
    <3>6. LaunchFails(i) => UNCHANGED returned /\ wrapper'[i].pc # "ENDED"
      BY DEF LaunchFails, Ended, ScheduleTypeOK, Wrapper
    <3>7. CycleTimesOut(i) => UNCHANGED returned /\ wrapper'[i].pc # "ENDED"
      BY DEF CycleTimesOut, Ended, ScheduleTypeOK, Wrapper
    <3>8. CycleEnds(i) => UNCHANGED returned /\ wrapper'[i].pc # "ENDED"
      BY DEF CycleEnds, Ended, ScheduleTypeOK, Wrapper
    <3>9. AskStatus(i) => UNCHANGED returned /\ wrapper'[i].pc # "ENDED"
      BY DEF AskStatus, ScheduleTypeOK
    <3>10. TaskLimit(i) => UNCHANGED returned /\ wrapper'[i].pc # "ENDED"
      BY DEF TaskLimit, Terminated, ScheduleTypeOK, Wrapper
    <3> QED
      BY <1>6, <3>1, <3>2, <3>3, <3>4, <3>5, <3>6, <3>7, <3>8, <3>9, <3>10
         DEF StepOf
  <2>3. ScheduleTypeOK'
    BY <1>1, <1>2, <2>1, <2>2 DEF ScheduleTypeOK
  <2>4. LET w == wrapper'[i]
        IN  /\ w.pc \in {"READY", "VALIDATE"} => w.cycle = "NONE"
            /\ w.pc = "CYCLE" => w.cycle = "RUNNING"
            /\ w.pc \in {"STATUS", "PUBLISH"} =>
                  w.cycle \in {"KILLED", "NOT_STARTED", "RETURNED"} /\ w.exit = Exit(w)
            /\ w.cycle = "RETURNED" => w.code \in CycleExit
    BY <1>1, LocalsTrue
  <2>5. WrapperTrue'
    BY <1>2, <1>4, <2>1, <2>4 DEF WrapperTrue
  <2>6. Envelopes'
    BY <1>2, <1>4, <2>1, <2>2 DEF Envelopes
  <2> QED
    BY <1>3, <2>3, <2>5, <2>6
<1> QED
  BY <1>5, <1>6

-----------------------------------------------------------------------------
(* The registrations.                                                      *)

LEMMA RegistrarKeeps ==
    ASSUME ScheduleInv, NEW r \in Registrar, Query(r) \/ Create(r)
    PROVE  ScheduleInv'
<1> USE DEF ScheduleInv
<1>1. UNCHANGED <<tick, wrapper, envelope, returned>>
  BY DEF Query, Create
<1>2. WrapperTrue' /\ Envelopes'
  BY <1>1 DEF WrapperTrue, Envelopes
<1>3. registrar[r].plan \in Plan /\ registrar \in [Registrar -> Registering]
  BY DEF ScheduleTypeOK, Registering
<1>4. CASE Query(r)
  <2>1. ScheduleTypeOK'
    BY <1>1, <1>3, <1>4 DEF Query, Registered, ScheduleTypeOK, Registering
  <2>2. RegistrationTrue'
    BY <1>3, <1>4 DEF Query, Registered, RegistrationTrue, Registering
  <2> QED
    BY <1>2, <2>1, <2>2
<1>5. CASE Create(r)
  <2>1. ScheduleTypeOK'
    BY <1>1, <1>3, <1>5 DEF Create, Registered, ScheduleTypeOK, Registering
  <2>2. RegistrationTrue'
    <3>1. \A q \in Registrar : registrar[q].plan \in Plan /\ registrar[q].plan # None
      BY <1>3 DEF Registering
    <3> QED
      BY <1>3, <1>5, <3>1 DEF Create, Registered, RegistrationTrue, Registering
  <2> QED
    BY <1>2, <2>1, <2>2
<1> QED
  BY <1>4, <1>5

-----------------------------------------------------------------------------
(* The invariant and what follows from it.                                 *)

LEMMA ScheduleInvariant == ScheduleSpec => []ScheduleInv
<1>1. ScheduleInit => ScheduleInv
  <2> SUFFICES ASSUME ScheduleInit PROVE ScheduleInv
    OBVIOUS
  <2>1. ScheduleTypeOK
    BY DEF ScheduleInit, ScheduleTypeOK, Wrapper, Registering
  <2> QED
    BY <2>1 DEF ScheduleInit, ScheduleInv, WrapperTrue, Envelopes, RegistrationTrue
<1>2. ScheduleInv /\ [ScheduleNext]_scheduleVars => ScheduleInv'
  <2> SUFFICES ASSUME ScheduleInv, [ScheduleNext]_scheduleVars PROVE ScheduleInv'
    OBVIOUS
  <2>1. CASE Pass
    BY <2>1 DEF Pass, ScheduleInv, ScheduleTypeOK, WrapperTrue, Envelopes, RegistrationTrue
  <2>2. ASSUME NEW i \in Invocation, StepOf(i) PROVE ScheduleInv'
    BY <2>2, WrapperKeeps
  <2>3. ASSUME NEW r \in Registrar, Query(r) \/ Create(r) PROVE ScheduleInv'
    BY <2>3, RegistrarKeeps
  <2>4. CASE UNCHANGED scheduleVars
    BY <2>4 DEF scheduleVars, ScheduleInv, ScheduleTypeOK, WrapperTrue, Envelopes, RegistrationTrue
  <2> QED
    BY <2>1, <2>2, <2>3, <2>4 DEF ScheduleNext, StepOf
<1> QED
  BY <1>1, <1>2, PTL DEF ScheduleSpec

\* The wrappers, the envelopes and the registrations stay well typed.
THEOREM ScheduleTyped == ScheduleSpec => []ScheduleTypeOK
BY ScheduleInvariant, PTL DEF ScheduleInv

\* Envelope and exit code tell what became of the cycle, for any codes of a cycle that are not
\* those of the wrapper, any timeouts and any number of invocations.
THEOREM EnvelopesAreTrue == ScheduleSpec => []EnvelopesTellTheCycle
BY ScheduleInvariant, EnvelopesInParts, PTL DEF ScheduleInv

\* No two registrations replace each other's task, however many there are.
THEOREM RegistrationsStand == ScheduleSpec => []RegistrationTrue
BY ScheduleInvariant, PTL DEF ScheduleInv

-----------------------------------------------------------------------------
(* The backups.                                                            *)

USE BackupAssumption

\* A dump whose manifest is still to be published, or that is to be discarded, is there and
\* belongs to one backup.  No manifest accepts it yet, but one whose publication failed.
Owned ==
    \A b \in BackupProc : backup[b].pc \in {"PUBLISH_MANIFEST", "DISCARD"} =>
        /\ backup[b].name \in DumpName
        /\ dump[backup[b].name] = backup[b].name[2]
        /\ accepted[backup[b].name] = None \/ backup[b].name \in unremoved
        /\ \A c \in BackupProc :
              c # b /\ backup[c].pc \in {"PUBLISH_MANIFEST", "DISCARD"}
              => backup[c].name # backup[b].name

\* A backup under way after its dump has a name.
Named ==
    \A b \in BackupProc :
        backup[b].pc \in {"LIST", "PUBLISH_DUMP"} => backup[b].name \in DumpName

BackupInv == BackupTypeOK /\ Named /\ Owned /\ ManifestVouches

LEMMA DigestOfName == \A n \in DumpName : n[2] \in Digest /\ n[2] # None
BY DEF DumpName

LEMMA BackupStep ==
    ASSUME BackupInv, NEW b \in BackupProc,
           \/ BeginBackup(b) \/ Dump(b) \/ ListInventory(b) \/ Abandon(b)
           \/ PublishDump(b) \/ PublishManifest(b) \/ ManifestFails(b)
           \/ UnlinkFails(b) \/ Discard(b)
    PROVE  BackupInv'
<1> USE DEF BackupInv, BackupTypeOK, BackupRun, NoBackup, Step
<1>1. CASE BeginBackup(b)
  BY <1>1 DEF BeginBackup, Named, Owned, ManifestVouches
<1>2. CASE Dump(b)
  BY <1>2 DEF Dump, Named, Owned, ManifestVouches
<1>3. CASE ListInventory(b)
  BY <1>3 DEF ListInventory, Named, Owned, ManifestVouches
<1>4. CASE Abandon(b)
  BY <1>4 DEF Abandon, Named, Owned, ManifestVouches
<1>5. CASE PublishDump(b)
  <2> DEFINE n == backup[b].name
  <2>1. backup[b].pc = "PUBLISH_DUMP" /\ n \in DumpName /\ UNCHANGED <<accepted, unremoved, backups>>
    BY <1>5 DEF PublishDump, Named
  <2>2. CASE /\ dump[n] = None /\ dump' = [dump EXCEPT ![n] = n[2]]
             /\ backup' = [backup EXCEPT ![b].pc = "PUBLISH_MANIFEST"]
    <3>1. BackupTypeOK' /\ Named'
      BY <2>1, <2>2, DigestOfName DEF Named
    <3>2. accepted[n] = None \/ n \in unremoved
      BY <2>1, <2>2 DEF ManifestVouches
    <3>3. Owned'
      BY <2>1, <2>2, <3>2, DigestOfName DEF Owned
    <3>4. ManifestVouches'
      BY <2>1, <2>2, <3>2 DEF ManifestVouches
    <3> QED
      BY <3>1, <3>3, <3>4
  <2>3. CASE UNCHANGED dump /\ backup' = [backup EXCEPT ![b] = NoBackup]
    BY <2>1, <2>3 DEF Named, Owned, ManifestVouches
  <2> QED
    BY <1>5, <2>2, <2>3 DEF PublishDump
<1>6. CASE PublishManifest(b)
  <2> DEFINE n == backup[b].name
  <2>1. /\ backup[b].pc = "PUBLISH_MANIFEST" /\ n \in DumpName /\ dump[n] = n[2]
        /\ UNCHANGED <<dump, unremoved, backups>>
    BY <1>6 DEF PublishManifest, Owned
  <2>2. CASE /\ accepted' = [accepted EXCEPT ![n] = n[2]]
             /\ backup' = [backup EXCEPT ![b] = NoBackup]
    <3>1. BackupTypeOK' /\ Named'
      BY <2>1, <2>2, DigestOfName DEF Named
    <3>2. Owned'
      BY <2>1, <2>2 DEF Owned
    <3>3. ManifestVouches'
      BY <2>1, <2>2 DEF ManifestVouches
    <3> QED
      BY <3>1, <3>2, <3>3
  <2>3. CASE UNCHANGED accepted /\ backup' = [backup EXCEPT ![b].pc = "DISCARD"]
    BY <2>1, <2>3 DEF Named, Owned, ManifestVouches
  <2> QED
    BY <1>6, <2>2, <2>3 DEF PublishManifest
<1>7. CASE ManifestFails(b)
  BY <1>7 DEF ManifestFails, Named, Owned, ManifestVouches
<1>8. CASE UnlinkFails(b)
  <2> DEFINE n == backup[b].name
  <2>1. /\ backup[b].pc = "PUBLISH_MANIFEST" /\ n \in DumpName /\ dump[n] = n[2]
        /\ backup' = [backup EXCEPT ![b].pc = "DISCARD"]
        /\ accepted' = [accepted EXCEPT ![n] = n[2]] /\ unremoved' = unremoved \cup {n}
        /\ UNCHANGED <<dump, backups>>
    BY <1>8 DEF UnlinkFails, Owned
  <2>2. BackupTypeOK' /\ Named'
    BY <2>1, DigestOfName DEF Named
  <2>3. Owned'
    BY <2>1 DEF Owned
  <2>4. ManifestVouches'
    BY <2>1 DEF ManifestVouches
  <2> QED
    BY <2>2, <2>3, <2>4
<1>9. CASE Discard(b)
  BY <1>9 DEF Discard, Named, Owned, ManifestVouches
<1> QED
  BY <1>1, <1>2, <1>3, <1>4, <1>5, <1>6, <1>7, <1>8, <1>9

LEMMA BackupInvariant == BackupSpec => []BackupInv
<1>1. BackupInit => BackupInv
  BY DEF BackupInit, BackupInv, BackupTypeOK, BackupRun, NoBackup, Named, Owned, ManifestVouches
<1>2. BackupInv /\ [BackupNext]_backupVars => BackupInv'
  <2> SUFFICES ASSUME BackupInv, [BackupNext]_backupVars PROVE BackupInv'
    OBVIOUS
  <2>1. CASE BackupNext
    BY <2>1, BackupStep DEF BackupNext
  <2>2. CASE UNCHANGED backupVars
    BY <2>2 DEF backupVars, BackupInv, BackupTypeOK, Named, Owned, ManifestVouches
  <2> QED
    BY <2>1, <2>2
<1> QED
  BY <1>1, <1>2, PTL DEF BackupSpec

\* The output directory and the processes stay well typed.
THEOREM BackupTyped == BackupSpec => []BackupTypeOK
BY BackupInvariant, PTL DEF BackupInv

\* Every manifest accepts a dump that is there, however many backups overlap, fail and die.
THEOREM ManifestsVouch == BackupSpec => []ManifestVouches
BY BackupInvariant, PTL DEF BackupInv

=============================================================================
