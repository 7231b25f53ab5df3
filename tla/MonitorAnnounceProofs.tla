----------------------- MODULE MonitorAnnounceProofs -----------------------
(***************************************************************************)
(* Proofs about MonitorAnnounce, for any keys, reporters, levels, settings *)
(* and bounds.                                                             *)
(*                                                                         *)
(* The argument follows one key through its two lock sections.  A key has  *)
(* one reporter, which is inside a publish from the section of the monitor *)
(* to the last word of the announcer (Busy): while an event of the key is  *)
(* on its way its issue cannot change, so the announcer never learns of a  *)
(* trouble after its recovery.                                             *)
(***************************************************************************)
EXTENDS MonitorAnnounce, TLAPS

\* What the type does not say of one key: one event or sentence at a time, a
\* published trouble has its issue, and the announcer remembers the key
\* exactly while what was heard of it is still open.
KeyInv(k) ==
    /\ speaking[k] # "none" => publishing[k] = "none"
    /\ publishing[k] \in Trouble => severity[k] # "none"
    /\ k \in announced => severity[k] # "none" \/ publishing[k] = "recovered"
    /\ speaking[k] = "trouble" => k \in announced /\ heard[k] = "nothing"
    /\ speaking[k] = "recovery" => k \notin announced /\ heard[k] \in {"trouble", "lost"}
    /\ speaking[k] = "none" /\ k \in announced => heard[k] \in {"trouble", "lost"}
    /\ speaking[k] = "none" /\ k \notin announced => heard[k] = "nothing"
IInv == \A k \in Key : KeyInv(k)

\* The monitor, the announcer, the clocks and the measured machine keep
\* every variable within its type.
THEOREM MonitorTypeCorrect == Spec => []TypeOK
<1>1. Init => TypeOK
  BY BoundsAssumption DEF Init, TypeOK
<1>2. TypeOK /\ [Next]_vars => TypeOK'
  <2> SUFFICES ASSUME TypeOK, [Next]_vars PROVE TypeOK'
    OBVIOUS
  <2> USE BoundsAssumption DEF TypeOK, Trouble
  <2>1. ASSUME NEW t \in Thread, BeginPass(t) PROVE TypeOK'
    BY <2>1 DEF BeginPass, issueVars, announcerVars
  <2>2. ASSUME NEW k \in Key, Emit(k) PROVE TypeOK'
    BY <2>2 DEF Emit, announcerVars
  <2>3. ASSUME NEW k \in Key, Clear(k) PROVE TypeOK'
    <3>1. CASE severity[k] = "none"
      BY <2>3, <3>1 DEF Clear, issueVars, announcerVars
    <3>2. CASE severity[k] # "none" /\ ~Recovered(k)
      <4>1. clears[k] + 1 \in 0 .. RecoverySamples - 1
        BY <3>2 DEF Recovered
      <4> QED BY <2>3, <3>2, <4>1 DEF Clear, announcerVars
    <3>3. CASE severity[k] # "none" /\ Recovered(k)
      BY <2>3, <3>3 DEF Clear, announcerVars
    <3> QED BY <3>1, <3>2, <3>3
  <2>4. ASSUME NEW k \in Key, Skip(k) PROVE TypeOK'
    BY <2>4 DEF Skip, issueVars, announcerVars
  <2>5. ASSUME NEW k \in Key, DecideTrouble(k) PROVE TypeOK'
    BY <2>5 DEF DecideTrouble, issueVars
  <2>6. ASSUME NEW k \in Key, DecideRecovery(k) PROVE TypeOK'
    BY <2>6 DEF DecideRecovery, Closed, issueVars
  <2>7. ASSUME NEW k \in Key, NEW works \in BOOLEAN, Speak(k, works) PROVE TypeOK'
    BY <2>7 DEF Speak, issueVars, announcerVars
  <2>8. ASSUME NEW k \in Key, LevelChanges(k) PROVE TypeOK'
    <3>1. PICK l \in Levels[k] : level' = [level EXCEPT ![k] = l]
      BY <2>8 DEF LevelChanges
    <3>2. l \in Trouble \cup {"ok", "unknown"}
      BY <3>1, LevelsAssumption
    <3> QED BY <2>8, <3>1, <3>2 DEF LevelChanges, issueVars, announcerVars
  <2>9. CASE Tick
    BY <2>9 DEF Tick, Older
  <2>10. CASE HourChanges
    BY <2>10 DEF HourChanges, issueVars, announcerVars
  <2>11. CASE UNCHANGED vars
    BY <2>11 DEF vars, issueVars, announcerVars
  <2> QED
    BY <2>1, <2>2, <2>3, <2>4, <2>5, <2>6, <2>7, <2>8, <2>9, <2>10, <2>11 DEF Next
<1> QED
  BY <1>1, <1>2, PTL DEF Spec

LEMMA InitKeys == Init => IInv
  BY DEF Init, IInv, KeyInv, Trouble

\* A step of the monitor touches a key only while no event or sentence of
\* its reporter is on the way.
LEMMA NotBusy ==
    ASSUME NEW k \in Key, ~Busy(Reporter[k])
    PROVE  publishing[k] = "none" /\ speaking[k] = "none"
  BY DEF Busy

LEMMA StepKeys == TypeOK /\ IInv /\ [Next]_vars => IInv'
<1> SUFFICES ASSUME TypeOK, IInv, [Next]_vars, NEW j \in Key PROVE KeyInv(j)'
  BY DEF IInv
<1>0. KeyInv(j)
  BY DEF IInv
<1> USE <1>0 DEF KeyInv, TypeOK, Trouble
<1>1. ASSUME NEW t \in Thread, BeginPass(t) PROVE KeyInv(j)'
  BY <1>1 DEF BeginPass, issueVars, announcerVars
<1>2. ASSUME NEW k \in Key, Emit(k) PROVE KeyInv(j)'
  <2>1. publishing[k] = "none" /\ speaking[k] = "none"
    BY <1>2, NotBusy DEF Emit
  <2> QED BY <1>2, <2>1 DEF Emit, announcerVars
<1>3. ASSUME NEW k \in Key, Clear(k) PROVE KeyInv(j)'
  <2>1. publishing[k] = "none" /\ speaking[k] = "none"
    BY <1>3, NotBusy DEF Clear
  <2>2. CASE severity[k] = "none" \/ ~Recovered(k)
    BY <1>3, <2>1, <2>2 DEF Clear, issueVars, announcerVars
  <2>3. CASE severity[k] # "none" /\ Recovered(k)
    BY <1>3, <2>1, <2>3 DEF Clear, announcerVars
  <2> QED BY <2>2, <2>3
<1>4. ASSUME NEW k \in Key, Skip(k) PROVE KeyInv(j)'
  BY <1>4 DEF Skip, issueVars, announcerVars
<1>5. ASSUME NEW k \in Key, DecideTrouble(k) PROVE KeyInv(j)'
  BY <1>5 DEF DecideTrouble, Permitted, issueVars
<1>6. ASSUME NEW k \in Key, DecideRecovery(k) PROVE KeyInv(j)'
  BY <1>6 DEF DecideRecovery, Closed, TellsRecovery, issueVars
<1>7. ASSUME NEW k \in Key, NEW works \in BOOLEAN, Speak(k, works) PROVE KeyInv(j)'
  BY <1>7 DEF Speak, issueVars, announcerVars
<1>8. ASSUME NEW k \in Key, LevelChanges(k) PROVE KeyInv(j)'
  BY <1>8 DEF LevelChanges, issueVars, announcerVars
<1>9. CASE Tick
  BY <1>9 DEF Tick
<1>10. CASE HourChanges
  BY <1>10 DEF HourChanges, issueVars, announcerVars
<1>11. CASE UNCHANGED vars
  BY <1>11 DEF vars, issueVars, announcerVars
<1> QED
  BY <1>1, <1>2, <1>3, <1>4, <1>5, <1>6, <1>7, <1>8, <1>9, <1>10, <1>11 DEF Next

LEMMA KeysHold == Spec => [](TypeOK /\ IInv)
<1>1. Spec => []TypeOK
  BY MonitorTypeCorrect
<1>2. Init => IInv
  BY InitKeys
<1>3. TypeOK /\ IInv /\ [Next]_vars => IInv'
  BY StepKeys
<1> QED
  BY <1>1, <1>2, <1>3, PTL DEF Spec

\* However the hours, the gap, failing voices and the other keys interfere,
\* the announcer remembers a key only while its issue is open or its recovery
\* is on the way.
THEOREM AnnouncementsCloseWithTheirIssue == Spec => []AnnouncedIsOpen
<1>1. TypeOK /\ IInv => AnnouncedIsOpen
  BY DEF TypeOK, IInv, KeyInv, AnnouncedIsOpen
<1> QED
  BY <1>1, KeysHold, PTL

\* A recovery sentence always follows a trouble sentence of the same outage.
THEOREM RecoveriesAnswerTroubles == Spec => []RecoveryAnswersTrouble
<1>1. IInv => RecoveryAnswersTrouble
  BY DEF IInv, KeyInv, RecoveryAnswersTrouble
<1> QED
  BY <1>1, KeysHold, PTL

\* No outage of any key is announced a second time.
THEOREM OutagesAreToldOnce == Spec => []OncePerOutage
<1>1. TypeOK /\ IInv => OncePerOutage
  BY DEF TypeOK, IInv, KeyInv, OncePerOutage
<1> QED
  BY <1>1, KeysHold, PTL

\* Duyurucu's sentences keep in step with the monitor's issues.
THEOREM SentencesKeepInStep == Spec => []SentencesAreInStep
<1>1. SentencesAreInStep
        <=> TypeOK /\ AnnouncedIsOpen /\ RecoveryAnswersTrouble /\ OncePerOutage
  BY DEF SentencesAreInStep
<1> QED
  BY <1>1, MonitorTypeCorrect, AnnouncementsCloseWithTheirIssue, RecoveriesAnswerTroubles,
     OutagesAreToldOnce, PTL
=============================================================================
