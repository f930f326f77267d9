-------------------------- MODULE WavExportProofs --------------------------
(***************************************************************************)
(* Proofs about module WavExport, for any number of exports and any set of *)
(* threads: the types, that a file that is open has a thread to close it,  *)
(* that it is closed by the thread of its own song, that a cancel reaches  *)
(* the song it is for, that no dialog stays when nothing goes on, and that *)
(* what is reported as written was written to its end.                     *)
(***************************************************************************)
EXTENDS WavExport, TLAPS

----------------------------------------------------------------------------
(* Types                                                                   *)

\* The handler of a command knows its export, and nothing of an export exists
\* before the first one is asked for.
Served ==
    /\ pc # "free" => handled # 0
    /\ special = 0 => /\ pc = "free" /\ requests = {} /\ notices = <<>>
                      /\ \A e \in Exports : watch[e] = "none"

TypedInv == TypeOK /\ Served

\* The initial state has the types of the variables.
LEMMA InitTyped == Init => TypedInv
<1> SUFFICES ASSUME Init PROVE TypedInv
  OBVIOUS
<1>1. /\ current \in 0..MaxExports /\ special \in 0..MaxExports /\ handled \in 0..MaxExports
      /\ owner \in [Threads -> 0..MaxExports] /\ closing \in [Threads -> 0..MaxExports]
  BY MaxExportsAssumption DEF Init
<1>2. notices \in Seq(Exports)
  BY DEF Init
<1>3. paused \in BOOLEAN /\ breakLoops \in BOOLEAN
  BY DEF Init
<1> QED BY <1>1, <1>2, <1>3 DEF Init, TypedInv, TypeOK, Served, States, ThreadCode, MainCode,
           DialogCode, WatchCode, FileStates

\* The history only ever holds kinds of mishaps.
LEMMA RecordTyped ==
    ASSUME mishaps \in SUBSET Mishaps, NEW kinds \in SUBSET Mishaps, Record(kinds)
    PROVE  mishaps' \in SUBSET Mishaps
BY DEF Record

LEMMA WhenTyped ==
    ASSUME NEW kind \in Mishaps, NEW condition
    PROVE  When(kind, condition) \in SUBSET Mishaps
BY DEF When

LEMMA PostMishapsTyped == PostMishaps \in SUBSET Mishaps
<1>1. /\ When("overwritten", droid_rc # "none") \in SUBSET Mishaps
      /\ When("unread", ~Listening) \in SUBSET Mishaps
  BY DEF When, Mishaps
<1> QED BY <1>1 DEF PostMishaps

\* JNIHandler.stop, pause and play.
LEMMA JNIStopTyped ==
    ASSUME TypeOK, NEW kinds \in SUBSET Mishaps, JNIStop(kinds)
    PROVE  /\ state' \in States /\ droid_rc' \in {"none", "toggle", "jump", "stop"}
           /\ mishaps' \in SUBSET Mishaps
<1>1. mishaps' \in SUBSET Mishaps
  BY PostMishapsTyped, RecordTyped DEF JNIStop, TypeOK
<1> QED BY <1>1 DEF JNIStop, Post, States

LEMMA JNIPauseTyped ==
    ASSUME TypeOK, JNIPause
    PROVE  /\ state' \in States /\ droid_rc' \in {"none", "toggle", "jump", "stop"}
           /\ mishaps' \in SUBSET Mishaps
<1>1. CASE state \in {"PLAYING", "PAUSED"}
  <2>1. mishaps' \in SUBSET Mishaps
    BY <1>1, PostMishapsTyped, RecordTyped DEF JNIPause, TypeOK
  <2> QED BY <1>1, <2>1 DEF JNIPause, Post, States
<1>2. CASE state \notin {"PLAYING", "PAUSED"}
  BY <1>2 DEF JNIPause, TypeOK
<1> QED BY <1>1, <1>2

LEMMA JNIPlayTyped ==
    ASSUME TypeOK, NEW e \in 0..MaxExports, JNIPlay(e)
    PROVE  /\ state' \in States
           /\ thr' \in [Threads -> ThreadCode] /\ owner' \in [Threads -> 0..MaxExports]
           /\ UNCHANGED <<closing, droid_rc, paused>>
BY DEF JNIPlay, TypeOK, States, ThreadCode

LEMMA SetupTyped ==
    ASSUME TypeOK, NEW e \in Exports, SetupOutputFile(e)
    PROVE  /\ current' \in 0..MaxExports /\ open' \in SUBSET Exports
           /\ file' \in [Exports -> FileStates] /\ ended' = ended
BY MaxExportsAssumption DEF SetupOutputFile, TypeOK, FileStates, Exports

LEMMA GotoTyped ==
    ASSUME TypeOK, NEW t \in Threads, NEW code \in ThreadCode, Goto(t, code)
    PROVE  thr' \in [Threads -> ThreadCode]
BY DEF TypeOK, Goto

LEMMA DieTyped ==
    ASSUME TypeOK, NEW t \in Threads, Die(t)
    PROVE  thr' \in [Threads -> ThreadCode] /\ owner' \in [Threads -> 0..MaxExports]
BY MaxExportsAssumption DEF TypeOK, Die, Goto, ThreadCode

\* What the steps of the activity leave behind.
LEMMA ActivityTyped ==
    ASSUME TypedInv, NEW e, NEW k \in Commands,
           \/ Play \/ Pause \/ Stop \/ Deliver \/ Export(k)
           \/ e \in Exports /\ (Cancel(e) \/ Dialog(e))
    PROVE  TypedInv'
<1> USE DEF TypedInv, TypeOK, Served
<1>1. CASE Play
  <2>1. /\ state' \in States
        /\ thr' \in [Threads -> ThreadCode] /\ owner' \in [Threads -> 0..MaxExports]
        /\ UNCHANGED <<closing, droid_rc, paused>>
    BY <1>1, JNIPlayTyped, MaxExportsAssumption DEF Play
  <2> QED BY <1>1, <2>1 DEF Play, writers, dialogs, main
<1>2. CASE Pause
  <2>1. /\ state' \in States /\ droid_rc' \in {"none", "toggle", "jump", "stop"}
        /\ mishaps' \in SUBSET Mishaps
    BY <1>2, JNIPauseTyped DEF Pause
  <2> QED BY <1>2, <2>1 DEF Pause, writers, dialogs, main
<1>3. CASE Stop
  <2>1. When("stopped", Writing) \in SUBSET Mishaps
    BY WhenTyped DEF Mishaps
  <2>2. /\ state' \in States /\ droid_rc' \in {"none", "toggle", "jump", "stop"}
        /\ mishaps' \in SUBSET Mishaps
    BY <1>3, <2>1, JNIStopTyped DEF Stop
  <2>3. breakLoops' \in BOOLEAN
    BY <1>3, Zenon DEF Stop
  <2> QED BY <1>3, <2>2, <2>3 DEF Stop, writers, dialogs, main
<1>4. CASE Deliver
  <2>1. special \in Exports
    BY <1>4, MaxExportsAssumption DEF Deliver, Exports
  <2>2. notices' \in Seq(Exports) /\ done' \in SUBSET Exports
    BY <1>4, <2>1 DEF Deliver
  <2>3. mishaps' \in SUBSET Mishaps
    BY <1>4, RecordTyped, WhenTyped DEF Deliver, Mishaps
  <2> QED BY <1>4, <2>1, <2>2, <2>3 DEF Deliver, player, writers, main, Exports
<1>5. CASE Export(k)
  <2>1. special' \in Exports /\ special' = special + 1
    BY <1>5, MaxExportsAssumption DEF Export, Exports
  <2>2. dlg' \in [Exports -> DialogCode]
    BY <1>5 DEF Export, DialogCode
  <2>3. requests' \in SUBSET (Exports \X Commands)
    BY <1>5, <2>1 DEF Export
  <2>4. special' \in 0..MaxExports /\ special' # 0
    BY <2>1, MaxExportsAssumption DEF Exports
  <2> QED BY <1>5, <2>2, <2>3, <2>4 DEF Export, player, writers, main
<1>6. CASE e \in Exports /\ Cancel(e)
  BY <1>6 DEF Cancel, DialogCode, player, writers, main
<1>7. CASE e \in Exports /\ DialogLoop(e)
  BY <1>7 DEF DialogLoop, DialogCode, player, writers, main
<1>8. CASE e \in Exports /\ DialogStop(e)
  <2>1. When("stopped", Writing /\ current # e) \cup
        When("ahead", handled = e \/ \E c \in Commands : <<e, c>> \in requests) \in SUBSET Mishaps
    BY WhenTyped DEF Mishaps
  <2>2. /\ state' \in States /\ droid_rc' \in {"none", "toggle", "jump", "stop"}
        /\ mishaps' \in SUBSET Mishaps
    BY <1>8, <2>1, JNIStopTyped DEF DialogStop
  <2> QED BY <1>8, <2>2 DEF DialogStop, DialogCode, writers, main
<1>9. CASE e \in Exports /\ Canceled(e)
  <2>1. file' \in [Exports -> FileStates]
    BY <1>9 DEF Canceled, FileStates
  <2> QED BY <1>9, <2>1 DEF Canceled, DialogCode, player, main
<1>10. CASE e \in Exports /\ Wrote(e)
  BY <1>10 DEF Wrote, DialogCode, player, writers, main
<1> QED BY <1>1, <1>2, <1>3, <1>4, <1>5, <1>6, <1>7, <1>8, <1>9, <1>10 DEF Dialog

\* What the steps of the service and of its watchers leave behind.
LEMMA ServiceTyped ==
    ASSUME TypedInv, NEW e, Handle \/ (e \in Exports /\ Watcher(e))
    PROVE  TypedInv'
<1> USE DEF TypedInv, TypeOK, Served
<1>1. ASSUME NEW x \in Exports, BeginNew(x) PROVE TypedInv'
  <2>1. /\ state' \in States /\ droid_rc' \in {"none", "toggle", "jump", "stop"}
        /\ mishaps' \in SUBSET Mishaps /\ breakLoops' \in BOOLEAN
    <3>1. CASE isActive
      <4>1. breakLoops' = TRUE /\ JNIStop({})
        BY <1>1, <3>1 DEF BeginNew
      <4>2. breakLoops' \in BOOLEAN
        BY <4>1, Zenon
      <4> QED BY <4>1, <4>2, JNIStopTyped
    <3>2. CASE ~isActive
      BY <1>1, <3>2 DEF BeginNew
    <3> QED BY <3>1, <3>2
  <2>2. /\ handled' = x /\ pc' \in MainCode
        /\ requests # {} /\ requests' \subseteq requests
    BY <1>1 DEF BeginNew, Handling, MainCode
  <2>3. handled' \in 0..MaxExports /\ handled' # 0
    BY <2>2, MaxExportsAssumption DEF Exports
  <2> QED BY <1>1, <2>1, <2>2, <2>3 DEF BeginNew, writers, dialogs
<1>2. ASSUME NEW x \in Exports, BeginCurr(x) PROVE TypedInv'
  <2>1. /\ state' \in States /\ droid_rc' \in {"none", "toggle", "jump", "stop"}
        /\ mishaps' \in SUBSET Mishaps
    BY <1>2, JNIPauseTyped DEF BeginCurr
  <2>2. /\ handled' = x /\ pc' \in MainCode
        /\ requests # {} /\ requests' \subseteq requests
    BY <1>2 DEF BeginCurr, Handling, MainCode
  <2>3. handled' \in 0..MaxExports /\ handled' # 0
    BY <2>2, MaxExportsAssumption DEF Exports
  <2> QED BY <1>2, <2>1, <2>2, <2>3 DEF BeginCurr, writers, dialogs
<1>3. CASE StartNew
  <2>1. handled \in Exports
    BY <1>3, MaxExportsAssumption DEF StartNew, Exports
  <2>2. /\ current' \in 0..MaxExports /\ open' \in SUBSET Exports
        /\ file' \in [Exports -> FileStates] /\ ended' = ended
    BY <1>3, <2>1, SetupTyped DEF StartNew
  <2>3. mishaps' \in SUBSET Mishaps
    <3>1. When("overlap", \E t \in Threads : Alive(t)) \in SUBSET Mishaps
      BY WhenTyped DEF Mishaps
    <3>2. When("overlap", \E t \in Threads : Alive(t)) \cup {"refused"} \in SUBSET Mishaps
      BY <3>1 DEF Mishaps
    <3> QED BY <1>3, <3>1, <3>2, RecordTyped DEF StartNew
  <2>4. /\ state' \in States
        /\ thr' \in [Threads -> ThreadCode] /\ owner' \in [Threads -> 0..MaxExports]
        /\ UNCHANGED <<closing, droid_rc, paused>>
    <3>1. CASE JNIPlay(handled)
      BY <3>1, JNIPlayTyped
    <3>2. CASE UNCHANGED player
      BY <3>2 DEF player
    <3> QED BY <1>3, <3>1, <3>2 DEF StartNew
  <2>5. breakLoops' \in BOOLEAN
    BY <1>3, Zenon DEF StartNew
  <2>6. watch' \in [Exports -> WatchCode] /\ pc' = "free" /\ handled' = 0 /\ special # 0
    BY <1>3 DEF StartNew, WatchCode
  <2> QED BY <1>3, <2>2, <2>3, <2>4, <2>5, <2>6, MaxExportsAssumption
        DEF StartNew, dialogs, MainCode
<1>4. CASE Unpaused
  BY <1>4 DEF Unpaused, MainCode, player, writers, dialogs
<1>5. CASE Seek
  <2>1. mishaps' \in SUBSET Mishaps
    BY <1>5, PostMishapsTyped, RecordTyped DEF Seek
  <2> QED BY <1>5, <2>1 DEF Seek, Post, States, MainCode, writers, dialogs
<1>6. CASE Sought
  <2>1. mishaps' \in SUBSET Mishaps
    BY <1>6, WhenTyped, RecordTyped DEF Sought, Mishaps
  <2> QED BY <1>6, <2>1 DEF Sought, States, MainCode, writers, dialogs
<1>7. CASE PauseForCurr
  <2>1. /\ state' \in States /\ droid_rc' \in {"none", "toggle", "jump", "stop"}
        /\ mishaps' \in SUBSET Mishaps
    BY <1>7, JNIPauseTyped DEF PauseForCurr
  <2> QED BY <1>7, <2>1 DEF PauseForCurr, MainCode, writers, dialogs
<1>8. CASE StartCurr
  <2>1. pc' = "free" /\ handled' = 0 /\ special # 0 /\ handled \in Exports
    BY <1>8, MaxExportsAssumption DEF StartCurr, Exports
  <2>2. CASE state = "PAUSED"
    <3>1. SetupOutputFile(handled) /\ JNIPause
      BY <1>8, <2>2 DEF StartCurr
    <3>2. owner' \in [Threads -> 0..MaxExports] /\ watch' \in [Exports -> WatchCode]
      BY <1>8, <2>2 DEF StartCurr, WatchCode
    <3>3. /\ current' \in 0..MaxExports /\ open' \in SUBSET Exports
          /\ file' \in [Exports -> FileStates] /\ ended' = ended
      BY <2>1, <3>1, SetupTyped
    <3>4. /\ state' \in States /\ droid_rc' \in {"none", "toggle", "jump", "stop"}
          /\ mishaps' \in SUBSET Mishaps
      BY <3>1, JNIPauseTyped
    <3>5. /\ UNCHANGED <<thr, closing, paused, breakLoops, dialogs, requests, notices, oldstate>>
          /\ pc' \in MainCode /\ handled' \in 0..MaxExports
      BY <1>8, <2>1, MaxExportsAssumption DEF StartCurr, MainCode
    <3> QED BY <2>1, <3>2, <3>3, <3>4, <3>5 DEF dialogs
  <2>3. CASE state # "PAUSED"
    <3>1. mishaps' \in SUBSET Mishaps
      BY <1>8, <2>3, RecordTyped DEF StartCurr, Mishaps
    <3>2. /\ UNCHANGED <<writers, state, droid_rc, owner, watch>>
          /\ UNCHANGED <<thr, closing, paused, breakLoops, dialogs, requests, notices, oldstate>>
      BY <1>8, <2>3 DEF StartCurr
    <3>3. pc' \in MainCode /\ handled' \in 0..MaxExports
      BY <2>1, MaxExportsAssumption DEF MainCode
    <3> QED BY <2>1, <3>1, <3>2, <3>3 DEF dialogs, writers
  <2> QED BY <2>2, <2>3
<1>9. CASE e \in Exports /\ WatchStart(e)
  <2>1. breakLoops' \in BOOLEAN
    BY <1>9, Zenon DEF WatchStart
  <2>2. special # 0
    BY <1>9 DEF WatchStart
  <2> QED BY <1>9, <2>1, <2>2 DEF WatchStart, WatchCode, player, writers, dialogs, main
<1>10. CASE e \in Exports /\ WatchActive(e)
  <2>1. breakLoops' \in BOOLEAN
    BY <1>10, Zenon DEF WatchActive
  <2>2. special # 0
    BY <1>10 DEF WatchActive
  <2>3. mishaps' \in SUBSET Mishaps
    BY <1>10, RecordTyped, WhenTyped DEF WatchActive, Mishaps
  <2>4. notices' \in Seq(Exports)
    BY <1>10 DEF WatchActive
  <2> QED BY <1>10, <2>1, <2>2, <2>3, <2>4 DEF WatchActive, WatchCode, player, writers, dialogs, main
<1>11. CASE e \in Exports /\ WatchCurr(e)
  <2>1. special # 0
    BY <1>11 DEF WatchCurr
  <2>2. mishaps' \in SUBSET Mishaps /\ notices' \in Seq(Exports)
    <3>1. When("early", Going(e)) \in SUBSET Mishaps
      BY WhenTyped DEF Mishaps
    <3>2. mishaps' \in SUBSET Mishaps
      BY <1>11, <3>1, RecordTyped DEF WatchCurr
    <3>3. notices' \in Seq(Exports)
      <4>1. notices' = notices \/ notices' = Append(notices, e)
        BY <1>11 DEF WatchCurr
      <4>2. Append(notices, e) \in Seq(Exports)
        BY <1>11
      <4> QED BY <4>1, <4>2
    <3> QED BY <3>2, <3>3
  <2>3. watch' \in [Exports -> WatchCode]
    BY <1>11 DEF WatchCurr, WatchCode
  <2>4. UNCHANGED <<player, writers, breakLoops, dialogs, requests, main>>
    BY <1>11 DEF WatchCurr
  <2> QED BY <2>1, <2>2, <2>3, <2>4 DEF player, writers, dialogs, main
<1> QED BY <1>1, <1>2, <1>3, <1>4, <1>5, <1>6, <1>7, <1>8, <1>9, <1>10, <1>11
      DEF Handle, Watcher

\* What the steps of a play thread leave behind.
LEMMA ThreadTyped ==
    ASSUME TypedInv, NEW t \in Threads, Thread(t) \/ LastEvent(t)
    PROVE  TypedInv'
<1> USE DEF TypedInv, TypeOK, Served, ThreadUnchanged, dialogs, main
<1>1. CASE Started(t)
  <2>1. thr' \in [Threads -> ThreadCode]
    BY <1>1, GotoTyped DEF Started, ThreadCode
  <2>2. state' \in States /\ droid_rc' \in {"none", "toggle", "jump", "stop"}
    BY <1>1 DEF Started, States
  <2>3. paused' \in BOOLEAN
    <3>1. paused' = paused \/ paused' = (paused # (droid_rc = "toggle"))
      BY <1>1 DEF Started
    <3> QED BY <3>1, Zenon
  <2>4. mishaps' \in SUBSET Mishaps
    <3>1. When("ignored", droid_rc = "stop") \in SUBSET Mishaps
      BY WhenTyped DEF Mishaps
    <3> QED BY <1>1, <3>1, RecordTyped DEF Started
  <2> QED BY <1>1, <2>1, <2>2, <2>3, <2>4 DEF Started
<1>2. CASE Poll(t)
  <2>1. thr' \in [Threads -> ThreadCode]
    BY <1>2, GotoTyped DEF Poll, ThreadCode
  <2>2. paused' \in BOOLEAN
    BY <1>2, Zenon DEF Poll
  <2> QED BY <1>2, <2>1, <2>2 DEF Poll
<1>3. CASE LastEvent(t)
  <2>1. thr' \in [Threads -> ThreadCode]
    BY <1>3, GotoTyped DEF LastEvent, ThreadCode
  <2>2. ended' \in SUBSET Exports
    BY <1>3 DEF LastEvent, Writing
  <2>3. mishaps' \in SUBSET Mishaps
    BY <1>3, RecordTyped, WhenTyped DEF LastEvent, Mishaps
  <2> QED BY <1>3, <2>1, <2>2, <2>3 DEF LastEvent
<1>4. CASE SongOver(t)
  <2>1. thr' \in [Threads -> ThreadCode]
    BY <1>4, GotoTyped DEF SongOver, ThreadCode
  <2>2. mishaps' \in SUBSET Mishaps
    <3>1. When("missed", owner[t] # 0 /\ watch[owner[t]] = "toPlay") \in SUBSET Mishaps
      BY WhenTyped DEF Mishaps
    <3> QED BY <1>4, <3>1, RecordTyped DEF SongOver
  <2>3. state' \in States
    BY <1>4 DEF SongOver, States
  <2> QED BY <1>4, <2>1, <2>2, <2>3 DEF SongOver
<1>5. CASE Leave(t)
  <2>1. thr' \in [Threads -> ThreadCode]
    BY <1>5, GotoTyped DEF Leave, ThreadCode
  <2> QED BY <1>5, <2>1 DEF Leave, States
<1>6. CASE Finish(t)
  <2>1. CASE Writing
    <3>1. thr' \in [Threads -> ThreadCode]
      BY <1>6, <2>1, GotoTyped DEF Finish, ThreadCode
    <3>2. closing' \in [Threads -> 0..MaxExports] /\ open' \in SUBSET Exports /\ owner' = owner
      BY <1>6, <2>1 DEF Finish
    <3> QED BY <1>6, <3>1, <3>2 DEF Finish
  <2>2. CASE ~Writing
    <3>1. thr' \in [Threads -> ThreadCode] /\ owner' \in [Threads -> 0..MaxExports]
      BY <1>6, <2>2, DieTyped DEF Finish
    <3> QED BY <1>6, <2>2, <3>1 DEF Finish
  <2> QED BY <2>1, <2>2
<1>7. CASE Header(t)
  <2>1. thr' \in [Threads -> ThreadCode] /\ owner' \in [Threads -> 0..MaxExports]
    BY <1>7, DieTyped DEF Header
  <2>2. closing' \in [Threads -> 0..MaxExports] /\ file' \in [Exports -> FileStates]
    <3>1. closing' = [closing EXCEPT ![t] = 0]
      BY <1>7 DEF Header
    <3>2. PICK c : file' = [file EXCEPT ![c] = IF @ = "absent" THEN "stub" ELSE "patched"]
      BY <1>7 DEF Header
    <3>3. closing' \in [Threads -> 0..MaxExports]
      BY <3>1, MaxExportsAssumption
    <3>4. file' \in [Exports -> FileStates]
      BY <3>2 DEF FileStates
    <3> QED BY <3>3, <3>4
  <2> QED BY <1>7, <2>1, <2>2 DEF Header
<1> QED BY <1>1, <1>2, <1>3, <1>4, <1>5, <1>6, <1>7 DEF Thread

LEMMA NextTyped == TypedInv /\ [Next]_vars => TypedInv'
<1>1. TypedInv /\ UNCHANGED vars => TypedInv'
  BY DEF TypedInv, TypeOK, Served, vars, player, writers, dialogs, main
<1>2. ASSUME TypedInv, Next PROVE TypedInv'
  <2>1. CASE Play \/ Pause \/ Stop \/ Deliver
    <3>1. "write_new" \in Commands
      BY DEF Commands
    <3> QED BY <1>2, <2>1, <3>1, ActivityTyped
  <2>2. ASSUME NEW k \in Commands, Export(k) PROVE TypedInv'
    BY <1>2, <2>2, ActivityTyped
  <2>3. ASSUME NEW e \in Exports, Cancel(e) \/ Dialog(e) PROVE TypedInv'
    <3>1. "write_new" \in Commands
      BY DEF Commands
    <3> QED BY <1>2, <2>3, <3>1, ActivityTyped
  <2>4. CASE Handle
    BY <1>2, <2>4, ServiceTyped
  <2>5. ASSUME NEW e \in Exports, Watcher(e) PROVE TypedInv'
    BY <1>2, <2>5, ServiceTyped
  <2>6. ASSUME NEW t \in Threads, Thread(t) \/ LastEvent(t) PROVE TypedInv'
    BY <1>2, <2>6, ThreadTyped
  <2> QED BY <1>2, <2>1, <2>2, <2>3, <2>4, <2>5, <2>6 DEF Next
<1> QED BY <1>1, <1>2

\* Every variable has its type; what is delivered is for a saver the activity
\* has, and what is handled for an export that was asked for.
THEOREM Typing == Spec => []TypeOK
<1>1. TypedInv => TypeOK
  BY DEF TypedInv
<1> QED BY <1>1, InitTyped, NextTyped, PTL DEF Spec

----------------------------------------------------------------------------
(* What the steps leave alone                                              *)

\* A thread that will still come to finishOutput.
Closer(t) == thr[t] \notin {"dead", "header"}

\* What went wrong stays recorded.
LEMMA RecordKeeps ==
    ASSUME NEW kinds, Record(kinds)
    PROVE  mishaps \subseteq mishaps' /\ kinds \subseteq mishaps'
BY DEF Record

LEMMA History == [Next]_vars => mishaps \subseteq mishaps'
<1> SUFFICES ASSUME [Next]_vars PROVE mishaps \subseteq mishaps'
  OBVIOUS
<1>1. CASE Play \/ Pause \/ Stop \/ Deliver
  BY <1>1, RecordKeeps DEF Play, Pause, Stop, Deliver, JNIPause, JNIStop
<1>2. ASSUME NEW k \in Commands, Export(k) PROVE mishaps' = mishaps
  BY <1>2 DEF Export
<1>3. ASSUME NEW e \in Exports, Cancel(e) \/ Dialog(e) \/ Watcher(e)
      PROVE  mishaps \subseteq mishaps'
  <2>1. CASE Cancel(e) \/ DialogLoop(e) \/ Canceled(e) \/ Wrote(e)
    BY <2>1 DEF Cancel, DialogLoop, Canceled, Wrote
  <2>2. CASE DialogStop(e)
    BY <2>2, RecordKeeps DEF DialogStop, JNIStop
  <2>3. CASE Watcher(e)
    BY <2>3, RecordKeeps DEF Watcher, WatchStart, WatchActive, WatchCurr
  <2> QED BY <1>3, <2>1, <2>2, <2>3 DEF Dialog
<1>4. CASE Handle
  <2>1. CASE StartNew \/ Unpaused \/ Seek \/ Sought
    BY <2>1, RecordKeeps DEF StartNew, Unpaused, Seek, Sought
  <2>2. CASE PauseForCurr \/ StartCurr
    BY <2>2, RecordKeeps DEF PauseForCurr, StartCurr, JNIPause
  <2>3. ASSUME NEW e \in Exports, BeginNew(e) \/ BeginCurr(e) PROVE mishaps \subseteq mishaps'
    BY <2>3, RecordKeeps DEF BeginNew, BeginCurr, JNIStop, JNIPause
  <2> QED BY <1>4, <2>1, <2>2, <2>3 DEF Handle
<1>5. ASSUME NEW t \in Threads, Thread(t) \/ LastEvent(t) PROVE mishaps \subseteq mishaps'
  BY <1>5, RecordKeeps DEF Thread, Started, Poll, LastEvent, SongOver, Leave, Finish, Header
<1>6. CASE UNCHANGED vars
  BY <1>6 DEF vars
<1> QED BY <1>1, <1>2, <1>3, <1>4, <1>5, <1>6 DEF Next

\* Only a song that starts, an export that starts and the play threads change
\* which threads there are and which file is open.
LEMMA OthersLeaveFiles ==
    ASSUME [Next]_vars, ~Play, ~StartNew, ~StartCurr,
           \A t \in Threads : ~(Thread(t) \/ LastEvent(t))
    PROVE  UNCHANGED <<thr, owner, closing, current, open>>
<1>1. CASE Pause \/ Stop \/ Deliver
  BY <1>1 DEF Pause, Stop, Deliver, player, writers
<1>2. ASSUME NEW k \in Commands, Export(k) PROVE UNCHANGED <<thr, owner, closing, current, open>>
  BY <1>2 DEF Export, player, writers
<1>3. ASSUME NEW e \in Exports, Cancel(e) \/ Dialog(e)
      PROVE  UNCHANGED <<thr, owner, closing, current, open>>
  BY <1>3 DEF Cancel, Dialog, DialogLoop, DialogStop, Canceled, Wrote, player, writers
<1>4. ASSUME NEW e \in Exports, Watcher(e)
      PROVE  UNCHANGED <<thr, owner, closing, current, open>>
  BY <1>4 DEF Watcher, WatchStart, WatchActive, WatchCurr, player, writers
<1>5. CASE Handle
  <2>1. CASE Unpaused \/ Seek \/ Sought \/ PauseForCurr
    BY <2>1 DEF Unpaused, Seek, Sought, PauseForCurr, player, writers
  <2>2. ASSUME NEW e \in Exports, BeginNew(e) \/ BeginCurr(e)
        PROVE  UNCHANGED <<thr, owner, closing, current, open>>
    BY <2>2 DEF BeginNew, BeginCurr, writers
  <2> QED BY <1>5, <2>1, <2>2 DEF Handle
<1>6. CASE UNCHANGED vars
  BY <1>6 DEF vars, player, writers
<1> QED BY <1>1, <1>2, <1>3, <1>4, <1>5, <1>6 DEF Next

\* A play thread leaves the other threads and the writer in use alone.
LEMMA ThreadLeaves ==
    ASSUME TypeOK, NEW t \in Threads, Thread(t) \/ LastEvent(t)
    PROVE  /\ \A u \in Threads \ {t} : /\ thr'[u] = thr[u] /\ owner'[u] = owner[u]
                                       /\ closing'[u] = closing[u]
           /\ thr[t] # "dead"
           /\ UNCHANGED <<current, dialogs, requests, pc, handled>>
<1>1. CASE Started(t) \/ Poll(t) \/ LastEvent(t) \/ SongOver(t) \/ Leave(t)
  BY <1>1 DEF Started, Poll, LastEvent, SongOver, Leave, Goto, ThreadUnchanged, main, TypeOK
<1>2. CASE Finish(t)
  BY <1>2 DEF Finish, Goto, Die, ThreadUnchanged, main, TypeOK
<1>3. CASE Header(t)
  BY <1>3 DEF Header, Goto, Die, ThreadUnchanged, main, TypeOK
<1> QED BY <1>1, <1>2, <1>3 DEF Thread

\* Until finishOutput it keeps its writer and its export.
LEMMA SongLeaves ==
    ASSUME TypeOK, NEW t \in Threads,
           Started(t) \/ Poll(t) \/ LastEvent(t) \/ SongOver(t) \/ Leave(t)
    PROVE  Closer(t) /\ Closer(t)' /\ UNCHANGED <<owner, closing, current, open>>
<1>1. CASE Started(t)
  BY <1>1 DEF Started, Goto, ThreadUnchanged, TypeOK, Closer
<1>2. CASE Poll(t)
  BY <1>2 DEF Poll, Goto, ThreadUnchanged, TypeOK, Closer
<1>3. CASE LastEvent(t)
  BY <1>3 DEF LastEvent, Goto, ThreadUnchanged, TypeOK, Closer
<1>4. CASE SongOver(t)
  BY <1>4 DEF SongOver, Goto, ThreadUnchanged, TypeOK, Closer
<1>5. CASE Leave(t)
  BY <1>5 DEF Leave, Goto, ThreadUnchanged, TypeOK, Closer
<1> QED BY <1>1, <1>2, <1>3, <1>4, <1>5

\* A new thread is one that was dead.
LEMMA PlayLeaves ==
    ASSUME TypeOK, NEW e, JNIPlay(e)
    PROVE  \E t \in Threads : /\ thr[t] = "dead" /\ thr'[t] = "start" /\ owner'[t] = e
                              /\ \A u \in Threads \ {t} : /\ thr'[u] = thr[u]
                                                          /\ owner'[u] = owner[u]
BY DEF JNIPlay, TypeOK, Alive

----------------------------------------------------------------------------
(* A file that is open has a thread to close it                            *)

\* write_curr finds the state PAUSED and the slot empty only when the toggle
\* it sent was taken by a thread whose song is not over.
Toggled ==
    pc = "ready" /\ state = "PAUSED" =>
        \/ droid_rc = "toggle"
        \/ \E t \in Threads : thr[t] \in {"play", "playEnd"}

Attended == Writing /\ Without({"refused"}) => \E t \in Threads : Closer(t)

LEMMA NextToggled == TypeOK /\ Toggled /\ [Next]_vars => Toggled'
<1> SUFFICES ASSUME TypeOK, Toggled, [Next]_vars PROVE Toggled'
  OBVIOUS
<1>1. CASE Play \/ Pause \/ Stop \/ Deliver
  BY <1>1 DEF Play, Pause, Stop, Deliver, main, Toggled
<1>2. ASSUME NEW k \in Commands, Export(k) PROVE Toggled'
  BY <1>2 DEF Export, main, Toggled
<1>3. ASSUME NEW e \in Exports, Cancel(e) \/ Dialog(e) PROVE Toggled'
  <2>1. CASE DialogStop(e)
    BY <2>1 DEF DialogStop, JNIStop, Toggled
  <2>2. CASE Cancel(e) \/ DialogLoop(e) \/ Canceled(e) \/ Wrote(e)
    BY <2>2 DEF Cancel, DialogLoop, Canceled, Wrote, main, player, Toggled
  <2> QED BY <1>3, <2>1, <2>2 DEF Dialog
<1>4. ASSUME NEW e \in Exports, Watcher(e) PROVE Toggled'
  BY <1>4 DEF Watcher, WatchStart, WatchActive, WatchCurr, main, player, Toggled
<1>5. CASE Handle
  <2>1. CASE StartNew \/ Unpaused \/ Seek \/ Sought \/ StartCurr
    BY <2>1 DEF StartNew, Unpaused, Seek, Sought, StartCurr, Toggled
  <2>2. CASE PauseForCurr
    BY <2>2 DEF PauseForCurr, JNIPause, Post, Toggled
  <2>3. ASSUME NEW e \in Exports, BeginNew(e) \/ BeginCurr(e) PROVE Toggled'
    BY <2>3 DEF BeginNew, BeginCurr, Toggled
  <2> QED BY <1>5, <2>1, <2>2, <2>3 DEF Handle
<1>6. ASSUME NEW t \in Threads, Thread(t) \/ LastEvent(t) PROVE Toggled'
  <2>1. /\ \A u \in Threads \ {t} : thr'[u] = thr[u]
        /\ pc' = pc
    BY <1>6, ThreadLeaves
  <2>2. CASE Started(t)
    BY <2>1, <2>2 DEF Started, Goto, TypeOK, Toggled
  <2>3. CASE Poll(t) \/ LastEvent(t)
    <3>1. thr'[t] \in {"play", "playEnd"}
      BY <2>3 DEF Poll, LastEvent, Goto, TypeOK
    <3> QED BY <3>1 DEF Toggled
  <2>4. CASE SongOver(t)
    BY <2>4 DEF SongOver, Toggled
  <2>5. CASE Leave(t) \/ Finish(t) \/ Header(t)
    <3>1. thr[t] \notin {"play", "playEnd"}
      BY <2>5 DEF Leave, Finish, Header
    <3>2. droid_rc' = droid_rc /\ (state' = "PAUSED" => state = "PAUSED")
      BY <2>5 DEF Leave, Finish, Header
    <3> QED BY <2>1, <3>1, <3>2 DEF Toggled
  <2> QED BY <1>6, <2>2, <2>3, <2>4, <2>5 DEF Thread
<1>7. CASE UNCHANGED vars
  BY <1>7 DEF vars, player, main, Toggled
<1> QED BY <1>1, <1>2, <1>3, <1>4, <1>5, <1>6, <1>7 DEF Next

LEMMA NextAttended == TypeOK /\ Toggled /\ Attended /\ [Next]_vars => Attended'
<1> SUFFICES ASSUME TypeOK, Toggled, Attended, [Next]_vars,
                    Writing', Without({"refused"})'
             PROVE  \E t \in Threads : Closer(t)'
  BY DEF Attended
<1>1. Writing => \E t \in Threads : Closer(t)
  BY History DEF Attended, Without
<1>2. CASE Play
  <2>1. Writing /\ JNIPlay(0)
    BY <1>2 DEF Play, writers, Writing
  <2> QED BY <1>1, <2>1, PlayLeaves DEF Closer
<1>3. CASE StartNew
  <2>1. CASE JNIPlay(handled)
    BY <2>1, PlayLeaves DEF Closer
  <2>2. CASE ~JNIPlay(handled)
    BY <1>3, <2>2, RecordKeeps DEF StartNew, Without
  <2> QED BY <2>1, <2>2
<1>4. CASE StartCurr
  <2>1. thr' = thr /\ pc = "ready" /\ droid_rc = "none"
    BY <1>4 DEF StartCurr
  <2>2. CASE state = "PAUSED"
    BY <2>1, <2>2 DEF Toggled, Closer
  <2>3. CASE state # "PAUSED"
    BY <1>4, <2>3, RecordKeeps DEF StartCurr, Without
  <2> QED BY <2>2, <2>3
<1>5. ASSUME NEW t \in Threads, Thread(t) \/ LastEvent(t) PROVE \E u \in Threads : Closer(u)'
  <2>1. CASE Started(t) \/ Poll(t) \/ LastEvent(t) \/ SongOver(t) \/ Leave(t)
    BY <2>1, SongLeaves
  <2>2. CASE Finish(t)
    BY <2>2 DEF Finish, ThreadUnchanged, Writing
  <2>3. CASE Header(t)
    <3>1. Writing /\ thr[t] = "header"
      BY <2>3 DEF Header, ThreadUnchanged, Writing
    <3> QED BY <1>1, <1>5, <3>1, ThreadLeaves DEF Closer
  <2> QED BY <1>5, <2>1, <2>2, <2>3 DEF Thread
<1>6. CASE ~Play /\ ~StartNew /\ ~StartCurr /\ \A t \in Threads : ~(Thread(t) \/ LastEvent(t))
  BY <1>1, <1>6, OthersLeaveFiles DEF Closer, Writing
<1> QED BY <1>2, <1>3, <1>4, <1>5, <1>6

\* A file that is open has a thread that is still to close it, whatever is
\* played, exported, cancelled, paused and stopped in between, as long as the
\* player does not refuse a song.
THEOREM FilesAreAttended == Spec => []WriterHasThread
<1>1. Init => Toggled /\ Attended
  BY DEF Init, Toggled, Attended, Writing
<1>2. Attended => WriterHasThread
  BY DEF Attended, WriterHasThread, Closer, Alive
<1>3. TypedInv => TypeOK
  BY DEF TypedInv
<1> QED BY <1>1, <1>2, <1>3, InitTyped, NextTyped, NextToggled, NextAttended, PTL DEF Spec

----------------------------------------------------------------------------
(* It is closed by the thread of its own song                              *)

Single == Without({"overlap"}) => \A t, u \in Threads : Alive(t) /\ Alive(u) => t = u

Own ==
    Without({"overlap", "refused"}) =>
        \A t \in Threads : /\ Closer(t) /\ Writing => owner[t] = current
                           /\ thr[t] = "header" => closing[t] = owner[t]

LEMMA NextSingle == TypeOK /\ Single /\ [Next]_vars => Single'
<1> SUFFICES ASSUME TypeOK, Single, [Next]_vars, Without({"overlap"})' PROVE
                    \A t, u \in Threads : Alive(t)' /\ Alive(u)' => t = u
  BY DEF Single
<1>1. \A t, u \in Threads : Alive(t) /\ Alive(u) => t = u
  BY History DEF Single, Without
<1>2. CASE Play
  BY <1>2, PlayLeaves DEF Play, Alive
<1>3. CASE StartNew
  <2>1. CASE JNIPlay(handled) /\ Record(When("overlap", \E t \in Threads : Alive(t)))
    <3>1. \A t \in Threads : ~Alive(t)
      BY <2>1, RecordKeeps DEF When, Without
    <3> QED BY <2>1, <3>1, PlayLeaves DEF Alive
  <2>2. CASE UNCHANGED player
    BY <1>1, <2>2 DEF player, Alive
  <2> QED BY <1>3, <2>1, <2>2 DEF StartNew
<1>4. CASE StartCurr
  BY <1>1, <1>4 DEF StartCurr, Alive
<1>5. ASSUME NEW t \in Threads, Thread(t) \/ LastEvent(t)
      PROVE  \A u \in Threads : Alive(u)' => Alive(u)
  BY <1>5, ThreadLeaves DEF Alive
<1>6. CASE ~Play /\ ~StartNew /\ ~StartCurr /\ \A t \in Threads : ~(Thread(t) \/ LastEvent(t))
  BY <1>1, <1>6, OthersLeaveFiles DEF Alive
<1> QED BY <1>1, <1>2, <1>3, <1>4, <1>5, <1>6

LEMMA NextOwn == TypeOK /\ Toggled /\ Attended /\ Single /\ Own /\ [Next]_vars => Own'
<1> SUFFICES ASSUME TypeOK, Toggled, Attended, Single, Own, [Next]_vars,
                    Without({"overlap", "refused"})', NEW t \in Threads
             PROVE  /\ Closer(t)' /\ Writing' => owner'[t] = current'
                    /\ thr'[t] = "header" => closing'[t] = owner'[t]
  BY DEF Own
<1>1. Without({"overlap", "refused"})
  BY History DEF Without
<1>2. /\ Closer(t) /\ Writing => owner[t] = current
      /\ thr[t] = "header" => closing[t] = owner[t]
  BY <1>1 DEF Own
<1>3. CASE Play
  <2>1. ~Writing' /\ closing' = closing
    <3>1. ~Writing
      BY <1>1, <1>3 DEF Play, Attended, Without, Closer, Alive
    <3> QED BY <1>3, <3>1 DEF Play, writers, Writing, JNIPlay
  <2>2. JNIPlay(0)
    BY <1>3 DEF Play
  <2> QED BY <1>2, <2>1, <2>2, PlayLeaves
<1>4. CASE StartNew
  <2>1. /\ JNIPlay(handled) /\ Record(When("overlap", \E u \in Threads : Alive(u)))
        /\ current' = handled
    BY <1>4, RecordKeeps DEF StartNew, SetupOutputFile, Without
  <2>2. \A u \in Threads : thr[u] = "dead"
    BY <2>1, RecordKeeps DEF When, Without, Alive
  <2> QED BY <2>1, <2>2, PlayLeaves DEF Closer
<1>5. CASE StartCurr
  <2>1. /\ state = "PAUSED" /\ droid_rc = "none" /\ pc = "ready"
        /\ current' = handled /\ thr' = thr
        /\ owner' = [u \in Threads |-> IF Alive(u) THEN handled ELSE owner[u]]
    BY <1>5, RecordKeeps DEF StartCurr, SetupOutputFile, Without
  <2>2. PICK u \in Threads : thr[u] \in {"play", "playEnd"}
    BY <2>1 DEF Toggled
  <2>3. thr[t] # "header"
    BY <1>1, <2>2 DEF Single, Without, Alive
  <2> QED BY <2>1, <2>3 DEF Closer, Alive
<1>6. ASSUME NEW u \in Threads, Thread(u) \/ LastEvent(u)
      PROVE  /\ Closer(t)' /\ Writing' => owner'[t] = current'
             /\ thr'[t] = "header" => closing'[t] = owner'[t]
  <2>1. CASE Started(u) \/ Poll(u) \/ LastEvent(u) \/ SongOver(u) \/ Leave(u)
    <3>1. CASE t = u
      BY <1>2, <2>1, <3>1, SongLeaves DEF Closer, Writing
    <3>2. CASE t # u
      BY <1>2, <1>6, <2>1, <3>2, SongLeaves, ThreadLeaves DEF Closer, Writing
    <3> QED BY <3>1, <3>2
  <2>2. CASE Finish(u)
    <3>1. ~Writing'
      BY <2>2 DEF Finish, ThreadUnchanged, Writing
    <3>2. CASE t = u
      <4>1. CASE Writing
        <5>1. closing'[t] = current /\ owner'[t] = owner[t] /\ Closer(t)
          BY <2>2, <3>2, <4>1 DEF Finish, Closer, TypeOK
        <5> QED BY <1>2, <3>1, <4>1, <5>1
      <4>2. CASE ~Writing
        BY <2>2, <3>1, <3>2, <4>2 DEF Finish, Die, Goto, TypeOK
      <4> QED BY <4>1, <4>2
    <3>3. CASE t # u
      BY <1>2, <1>6, <3>1, <3>3, ThreadLeaves
    <3> QED BY <3>2, <3>3
  <2>3. CASE Header(u)
    <3>1. CASE t = u
      BY <2>3, <3>1 DEF Header, Die, Goto, Closer, TypeOK
    <3>2. CASE t # u
      <4>1. UNCHANGED <<open, current>>
        BY <2>3 DEF Header, ThreadUnchanged
      <4> QED BY <1>2, <1>6, <3>2, <4>1, ThreadLeaves DEF Closer, Writing
    <3> QED BY <3>1, <3>2
  <2> QED BY <1>6, <2>1, <2>2, <2>3 DEF Thread
<1>7. CASE ~Play /\ ~StartNew /\ ~StartCurr /\ \A u \in Threads : ~(Thread(u) \/ LastEvent(u))
  BY <1>2, <1>7, OthersLeaveFiles DEF Closer, Writing
<1> QED BY <1>3, <1>4, <1>5, <1>6, <1>7

\* The file of an export is closed, and its header completed, by the thread of
\* its own song, as long as no song starts beside another and none is refused.
THEOREM OwnThreadClosesIt == Spec => []OwnThreadCloses
<1>1. Init => Toggled /\ Attended /\ Single /\ Own
  BY DEF Init, Toggled, Attended, Writing, Single, Own, Alive, Closer
<1>2. Own => OwnThreadCloses
  BY DEF Own, OwnThreadCloses
<1>3. TypedInv => TypeOK
  BY DEF TypedInv
<1> QED BY <1>1, <1>2, <1>3, InitTyped, NextTyped, NextToggled, NextAttended, NextSingle, NextOwn,
           PTL DEF Spec

----------------------------------------------------------------------------
(* A cancel reaches the song it is for                                     *)

Cancelled(e) == dlg[e] \in {"canceling", "canceled"}

\* No command is left to come for an export that was cancelled after it.
Asked ==
    Without({"ahead"}) =>
        \A e \in Exports : Cancelled(e) =>
            handled # e /\ \A k \in Commands : <<e, k>> \notin requests

LEMMA NextAsked == TypeOK /\ Asked /\ [Next]_vars => Asked'
<1> SUFFICES ASSUME TypeOK, Asked, [Next]_vars, Without({"ahead"})',
                    NEW e \in Exports, Cancelled(e)'
             PROVE  handled' # e /\ \A k \in Commands : <<e, k>> \notin requests'
  BY DEF Asked
<1> DEFINE Unserved == handled # e /\ \A k \in Commands : <<e, k>> \notin requests
<1>1. Cancelled(e) => Unserved
  BY History DEF Asked, Without
<1>2. ASSUME UNCHANGED <<dlg, handled, requests>> PROVE Unserved'
  BY <1>1, <1>2 DEF Cancelled
<1>3. CASE Play \/ Pause \/ Stop \/ Deliver
  BY <1>2, <1>3 DEF Play, Pause, Stop, Deliver, dialogs, main
<1>4. ASSUME NEW k \in Commands, Export(k) PROVE Unserved'
  <2>1. /\ dlg' = [dlg EXCEPT ![special + 1] = "converting"]
        /\ requests' = requests \cup {<<special + 1, k>>}
        /\ handled' = handled
    BY <1>4 DEF Export, main
  <2>2. e # special + 1 /\ Cancelled(e)
    BY <2>1 DEF Cancelled, TypeOK
  <2> QED BY <1>1, <2>1, <2>2
<1>5. ASSUME NEW x \in Exports, Cancel(x) \/ Dialog(x) PROVE Unserved'
  <2>1. UNCHANGED <<handled, requests>>
    BY <1>5 DEF Cancel, Dialog, DialogLoop, DialogStop, Canceled, Wrote, main
  <2>2. CASE Cancel(x) \/ DialogLoop(x) \/ Canceled(x) \/ Wrote(x)
    <3>1. Cancelled(e)
      BY <2>2 DEF Cancel, DialogLoop, Canceled, Wrote, Cancelled, TypeOK
    <3> QED BY <1>1, <2>1, <3>1
  <2>3. CASE DialogStop(x)
    <3>1. CASE x = e
      <4>1. When("ahead", handled = x \/ \E k \in Commands : <<x, k>> \in requests)
               \subseteq mishaps'
        BY <2>3, RecordKeeps DEF DialogStop, JNIStop
      <4>2. ~(handled = x \/ \E k \in Commands : <<x, k>> \in requests)
        BY <4>1 DEF When, Without
      <4> QED BY <2>1, <3>1, <4>2
    <3>2. CASE x # e
      <4>1. Cancelled(e)
        BY <2>3, <3>2 DEF DialogStop, Cancelled, TypeOK
      <4> QED BY <1>1, <2>1, <4>1
    <3> QED BY <3>1, <3>2
  <2> QED BY <1>5, <2>2, <2>3 DEF Dialog
<1>6. ASSUME NEW x \in Exports, Watcher(x) PROVE Unserved'
  BY <1>2, <1>6 DEF Watcher, WatchStart, WatchActive, WatchCurr, dialogs, main
<1>7. CASE Handle
  <2>1. CASE StartNew \/ StartCurr
    <3>1. handled' = 0 /\ UNCHANGED <<dlg, requests>>
      BY <2>1 DEF StartNew, StartCurr, dialogs
    <3> QED BY <1>1, <3>1, MaxExportsAssumption DEF Cancelled, Exports
  <2>2. CASE Unpaused \/ Seek \/ Sought \/ PauseForCurr
    BY <1>2, <2>2 DEF Unpaused, Seek, Sought, PauseForCurr, dialogs
  <2>3. ASSUME NEW x \in Exports, NEW k \in Commands, Handling(x, k), dlg' = dlg PROVE Unserved'
    <3>1. <<x, k>> \in requests /\ requests' \subseteq requests /\ handled' = x
      BY <2>3 DEF Handling
    <3> QED BY <1>1, <2>3, <3>1 DEF Cancelled
  <2>4. ASSUME NEW x \in Exports, BeginNew(x) \/ BeginCurr(x) PROVE Unserved'
    BY <2>3, <2>4 DEF BeginNew, BeginCurr, dialogs, Commands
  <2> QED BY <1>7, <2>1, <2>2, <2>4 DEF Handle
<1>8. ASSUME NEW t \in Threads, Thread(t) \/ LastEvent(t) PROVE Unserved'
  BY <1>2, <1>8, ThreadLeaves DEF dialogs
<1>9. CASE UNCHANGED vars
  BY <1>2, <1>9 DEF vars, dialogs, main
<1> QED BY <1>3, <1>4, <1>5, <1>6, <1>7, <1>8, <1>9 DEF Next

\* A command is never left over another one without a record.
LEMMA PostedOver ==
    ASSUME Record(PostMishaps), Without({"overwritten"})'
    PROVE  droid_rc = "none"
<1>1. When("overwritten", droid_rc # "none") \subseteq mishaps'
  BY RecordKeeps DEF PostMishaps
<1> QED BY <1>1 DEF When, Without

LEMMA NextCancelStops ==
    TypeOK /\ Single /\ Asked /\ CancelStops /\ [Next]_vars => CancelStops'
<1> SUFFICES ASSUME TypeOK, Single, Asked, CancelStops, [Next]_vars, NEW e \in Exports,
                    Cancelled(e)', Going(e)',
                    Without({"ignored", "overwritten", "ahead", "overlap"})'
             PROVE  droid_rc' = "stop"
  BY DEF CancelStops, Cancelled
<1>1. Without({"ignored", "overwritten", "ahead", "overlap"})
  BY History DEF Without
<1>2. Cancelled(e) /\ Going(e) => droid_rc = "stop"
  BY <1>1 DEF CancelStops, Cancelled
<1>3. e # 0
  BY MaxExportsAssumption DEF Exports
<1>4. ASSUME UNCHANGED <<droid_rc, thr, owner>>, Cancelled(e) PROVE droid_rc' = "stop"
  BY <1>2, <1>4 DEF Going
<1>5. ASSUME JNIPause, UNCHANGED <<thr, owner, dlg>> PROVE droid_rc' = "stop"
  <2>1. droid_rc = "stop"
    BY <1>2, <1>5 DEF Going, Cancelled
  <2>2. CASE state \in {"PLAYING", "PAUSED"}
    BY <1>5, <2>1, <2>2, PostedOver DEF JNIPause, Without
  <2>3. CASE state \notin {"PLAYING", "PAUSED"}
    BY <1>5, <2>1, <2>3 DEF JNIPause
  <2> QED BY <2>2, <2>3
<1>6. CASE Play \/ Pause \/ Stop \/ Deliver
  <2>1. CASE Play
    <3>1. JNIPlay(0) /\ UNCHANGED <<droid_rc, dlg>>
      BY <2>1 DEF Play, JNIPlay, dialogs
    <3>2. Cancelled(e) /\ Going(e)
      BY <1>3, <3>1, PlayLeaves DEF Going, Cancelled
    <3> QED BY <1>2, <3>1, <3>2
  <2>2. CASE Pause
    BY <1>5, <2>2 DEF Pause, dialogs
  <2>3. CASE Stop
    BY <2>3 DEF Stop, JNIStop, Post
  <2>4. CASE Deliver
    BY <1>4, <2>4 DEF Deliver, player, Cancelled
  <2> QED BY <1>6, <2>1, <2>2, <2>3, <2>4
<1>7. ASSUME NEW k \in Commands, Export(k) PROVE droid_rc' = "stop"
  <2>1. Cancelled(e)
    BY <1>7 DEF Export, Cancelled, TypeOK
  <2> QED BY <1>4, <1>7, <2>1 DEF Export, player
<1>8. ASSUME NEW x \in Exports, Cancel(x) \/ Dialog(x) PROVE droid_rc' = "stop"
  <2>1. CASE DialogStop(x)
    BY <2>1 DEF DialogStop, JNIStop, Post
  <2>2. CASE Cancel(x) \/ DialogLoop(x) \/ Canceled(x) \/ Wrote(x)
    <3>1. Cancelled(e)
      BY <2>2 DEF Cancel, DialogLoop, Canceled, Wrote, Cancelled, TypeOK
    <3> QED BY <1>4, <2>2, <3>1 DEF Cancel, DialogLoop, Canceled, Wrote, player
  <2> QED BY <1>8, <2>1, <2>2 DEF Dialog
<1>9. ASSUME NEW x \in Exports, Watcher(x) PROVE droid_rc' = "stop"
  BY <1>4, <1>9 DEF Watcher, WatchStart, WatchActive, WatchCurr, player, dialogs, Cancelled
<1>10. CASE Handle
  <2>1. CASE StartNew
    <3>1. Cancelled(e) /\ handled # e
      BY <1>1, <2>1 DEF StartNew, dialogs, Cancelled, Asked, Without
    <3>2. CASE JNIPlay(handled) /\ Record(When("overlap", \E t \in Threads : Alive(t)))
      <4>1. \A t \in Threads : thr[t] = "dead"
        BY <3>2, RecordKeeps DEF When, Without, Alive
      <4> QED BY <3>1, <3>2, <4>1, PlayLeaves DEF Going
    <3>3. CASE UNCHANGED player
      BY <1>4, <3>1, <3>3 DEF player
    <3> QED BY <2>1, <3>2, <3>3 DEF StartNew
  <2>2. CASE StartCurr
    <3>1. Cancelled(e) /\ handled # e
      BY <1>1, <2>2 DEF StartCurr, dialogs, Cancelled, Asked, Without
    <3>2. CASE state = "PAUSED"
      <4>1. thr' = thr /\ owner' = [t \in Threads |-> IF Alive(t) THEN handled ELSE owner[t]]
        BY <2>2, <3>2 DEF StartCurr
      <4> QED BY <3>1, <4>1 DEF Going, Alive
    <3>3. CASE state # "PAUSED"
      BY <1>4, <2>2, <3>1, <3>3 DEF StartCurr
    <3> QED BY <3>2, <3>3
  <2>3. CASE Unpaused \/ Sought
    BY <1>4, <2>3 DEF Unpaused, Sought, player, dialogs, Cancelled
  <2>4. CASE Seek
    <3>1. Cancelled(e) /\ Going(e)
      BY <2>4 DEF Seek, dialogs, Cancelled, Going
    <3> QED BY <1>2, <2>4, <3>1, PostedOver DEF Seek, Without
  <2>5. CASE PauseForCurr
    BY <1>5, <2>5 DEF PauseForCurr, dialogs
  <2>6. ASSUME NEW x \in Exports, BeginNew(x) PROVE droid_rc' = "stop"
    <3>1. UNCHANGED <<thr, owner, dlg>>
      BY <2>6 DEF BeginNew, dialogs
    <3> QED BY <1>4, <2>6, <3>1 DEF BeginNew, JNIStop, Post, Cancelled
  <2>7. ASSUME NEW x \in Exports, BeginCurr(x) PROVE droid_rc' = "stop"
    <3>1. UNCHANGED <<thr, owner, dlg>>
      BY <2>7 DEF BeginCurr, dialogs
    <3> QED BY <1>4, <1>5, <2>7, <3>1 DEF BeginCurr, Cancelled
  <2> QED BY <1>10, <2>1, <2>2, <2>3, <2>4, <2>5, <2>6, <2>7 DEF Handle
<1>11. ASSUME NEW t \in Threads, Thread(t) \/ LastEvent(t) PROVE droid_rc' = "stop"
  <2>1. /\ \A u \in Threads \ {t} : thr'[u] = thr[u] /\ owner'[u] = owner[u]
        /\ Alive(t) /\ Cancelled(e)
    BY <1>11, ThreadLeaves DEF dialogs, Cancelled, Alive
  <2>2. \A u \in Threads \ {t} : ~Alive(u)
    BY <1>1, <2>1 DEF Single, Without
  <2>3. owner'[t] = e /\ thr'[t] \in {"start", "entry", "play"}
    BY <2>1, <2>2 DEF Going, Alive
  <2>4. CASE Started(t)
    <3>1. Going(e)
      BY <2>3, <2>4 DEF Started, Goto, Going, TypeOK
    <3>2. droid_rc = "stop"
      BY <1>2, <2>1, <3>1
    <3>3. CASE thr[t] = "start"
      BY <2>4, <3>2, <3>3 DEF Started
    <3>4. CASE thr[t] # "start"
      <4>1. When("ignored", droid_rc = "stop") \subseteq mishaps'
        BY <2>4, <3>4, RecordKeeps DEF Started
      <4> QED BY <3>2, <4>1 DEF When, Without
    <3> QED BY <3>3, <3>4
  <2>5. CASE Poll(t)
    <3>1. Going(e)
      BY <2>3, <2>5 DEF Poll, Going
    <3>2. droid_rc = "stop"
      BY <1>2, <2>1, <3>1
    <3> QED BY <2>3, <2>5, <3>2 DEF Poll, Goto, TypeOK
  <2>6. CASE LastEvent(t) \/ SongOver(t) \/ Leave(t)
    BY <2>3, <2>6 DEF LastEvent, SongOver, Leave, Goto, TypeOK
  <2>7. CASE Finish(t) \/ Header(t)
    BY <2>3, <2>7 DEF Finish, Header, Die, Goto, TypeOK
  <2> QED BY <1>11, <2>4, <2>5, <2>6, <2>7 DEF Thread
<1>12. CASE UNCHANGED vars
  BY <1>4, <1>12 DEF vars, player, dialogs, Cancelled
<1> QED BY <1>6, <1>7, <1>8, <1>9, <1>10, <1>11, <1>12 DEF Next

\* The song of an export that was cancelled is over or has the stop in the
\* slot, as long as nothing overwrote the stop, it did not come before the
\* song, and songs do not overlap.
THEOREM CancelsStop == Spec => []CancelStops
<1>1. Init => Single /\ Asked /\ CancelStops
  BY DEF Init, Single, Asked, CancelStops, Cancelled, Alive
<1>2. TypedInv => TypeOK
  BY DEF TypedInv
<1> QED BY <1>1, <1>2, InitTyped, NextTyped, NextSingle, NextAsked, NextCancelStops,
           PTL DEF Spec

----------------------------------------------------------------------------
(* No dialog stays                                                         *)

\* The song is not over.
Loud(t) == thr[t] \in {"start", "entry", "play", "playEnd"}

\* The exports are served in the order in which they were asked for, and the
\* dialog that is shown is the last one's.
InTurn ==
    /\ \A r \in requests : r[1] <= special
    /\ \A q, r \in requests : q[1] = r[1] => q = r
    /\ pc # "free" => handled <= special /\ \A r \in requests : handled < r[1]
    /\ \A e \in Exports : watch[e] # "none" =>
          /\ e <= special
          /\ \A r \in requests : e < r[1]
          /\ pc # "free" => e < handled
    /\ \A e \in Exports : dlg[e] = "converting" => e = special

\* write_curr seeks in a song that it has set going.
Sounding ==
    /\ state = "SEEKING" => pc = "sought"
    /\ pc \in {"unpaused", "seek", "sought", "pause"} => state # "PAUSED"
    /\ oldstate \notin {"PAUSED", "SEEKING"}

\* Between two commands an active state has a song.
Heard ==
    pc \in {"free", "ready"} /\ isActive /\ (pc = "ready" => state # "PAUSED")
        => \E t \in Threads : Loud(t)

\* The watcher of write_curr waits for a song that is its own.
Awaited ==
    Without({"missed"}) =>
        \A e \in Exports : e = special /\ watch[e] = "toPlay" =>
            \E t \in Threads : owner[t] = e /\ Loud(t)

\* Somebody is still to tell the saver whose dialog is shown.
Told ==
    Without({"refused"}) =>
        \A e \in Exports : dlg[e] = "converting" /\ e \notin done =>
            \/ \E k \in Commands : <<e, k>> \in requests
            \/ pc # "free" /\ handled = e
            \/ watch[e] # "none"
            \/ notices # <<>>

\* A play thread leaves the watchers and the notices alone.
LEMMA ThreadQuiet ==
    ASSUME NEW t \in Threads, Thread(t) \/ LastEvent(t)
    PROVE  UNCHANGED <<watch, dialogs, requests, notices, main>>
BY DEF Thread, Started, Poll, LastEvent, SongOver, Leave, Finish, Header, ThreadUnchanged

LEMMA HandlingInTurn ==
    ASSUME TypeOK, InTurn, NEW e \in Exports, NEW k \in Commands, Handling(e, k),
           UNCHANGED <<special, watch, dlg>>
    PROVE  InTurn'
<1>1. /\ pc = "free" /\ <<e, k>> \in requests /\ \A r \in requests : e <= r[1]
      /\ requests' = requests \ {<<e, k>>} /\ handled' = e
  BY DEF Handling
<1>2. e <= special /\ \A x \in Exports : watch[x] # "none" => x < e
  BY <1>1 DEF InTurn
<1>3. \A r \in requests' : r[1] \in Exports /\ e <= r[1] /\ e # r[1]
  BY <1>1 DEF InTurn, TypeOK
<1>4. \A r \in requests' : e < r[1]
  BY <1>3 DEF Exports
<1> QED BY <1>1, <1>2, <1>4 DEF InTurn

LEMMA NextInTurn == TypedInv /\ InTurn /\ [Next]_vars => InTurn'
<1> SUFFICES ASSUME TypeOK, Served, InTurn, [Next]_vars PROVE InTurn'
  BY DEF TypedInv
<1>1. ASSUME UNCHANGED <<requests, special, pc, handled, watch, dlg>> PROVE InTurn'
  BY <1>1 DEF InTurn
<1>2. CASE Play \/ Pause \/ Stop \/ Deliver
  BY <1>1, <1>2 DEF Play, Pause, Stop, Deliver, dialogs, main
<1>3. ASSUME NEW k \in Commands, Export(k) PROVE InTurn'
  <2>1. /\ pc = "free" /\ special' = special + 1 /\ requests' = requests \cup {<<special + 1, k>>}
        /\ UNCHANGED <<watch, pc, handled>>
        /\ dlg' = [dlg EXCEPT ![special + 1] = "converting"]
        /\ \A e \in Exports : dlg[e] # "converting"
    BY <1>3 DEF Export, Visible, main
  <2>2. special \in Nat /\ \A e \in Exports : e \in Nat
    BY MaxExportsAssumption DEF TypeOK, Exports
  <2>3. \A r \in requests : r[1] \in Nat
    BY <2>2 DEF TypeOK
  <2>4. \A r \in requests' : r[1] <= special + 1
    BY <2>1, <2>2, <2>3 DEF InTurn
  <2>5. \A q, r \in requests' : q[1] = r[1] => q = r
    BY <2>1, <2>2, <2>3 DEF InTurn
  <2>6. \A e \in Exports : watch[e] # "none" =>
            e <= special + 1 /\ \A r \in requests' : e < r[1]
    BY <2>1, <2>2, <2>3 DEF InTurn
  <2>7. \A e \in Exports : dlg'[e] = "converting" => e = special + 1
    BY <2>1 DEF TypeOK
  <2> QED BY <2>1, <2>4, <2>5, <2>6, <2>7 DEF InTurn
<1>4. ASSUME NEW e \in Exports, Cancel(e) \/ Dialog(e) PROVE InTurn'
  <2>1. UNCHANGED <<requests, special, pc, handled, watch>>
    BY <1>4 DEF Cancel, Dialog, DialogLoop, DialogStop, Canceled, Wrote, main
  <2>2. \A x \in Exports : dlg'[x] = "converting" => dlg[x] = "converting"
    BY <1>4 DEF Cancel, Dialog, DialogLoop, DialogStop, Canceled, Wrote, TypeOK
  <2> QED BY <2>1, <2>2 DEF InTurn
<1>5. ASSUME NEW e \in Exports, Watcher(e) PROVE InTurn'
  <2>1. UNCHANGED <<requests, special, pc, handled, dlg>>
    BY <1>5 DEF Watcher, WatchStart, WatchActive, WatchCurr, main, dialogs
  <2>2. \A x \in Exports : watch'[x] # "none" => watch[x] # "none"
    BY <1>5 DEF Watcher, WatchStart, WatchActive, WatchCurr, TypeOK
  <2> QED BY <2>1, <2>2 DEF InTurn
<1>6. CASE Handle
  <2>1. CASE StartNew \/ StartCurr
    <3>1. /\ pc # "free" /\ pc' = "free" /\ UNCHANGED <<requests, special, dlg>>
          /\ \A x \in Exports : watch'[x] # "none" => x = handled \/ watch[x] # "none"
      BY <2>1 DEF StartNew, StartCurr, dialogs, TypeOK
    <3> QED BY <3>1 DEF InTurn
  <2>2. CASE Unpaused \/ Seek \/ Sought \/ PauseForCurr
    <3>1. pc # "free" /\ pc' # "free" /\ UNCHANGED <<requests, special, handled, watch, dlg>>
      BY <2>2 DEF Unpaused, Seek, Sought, PauseForCurr, dialogs
    <3> QED BY <3>1 DEF InTurn
  <2>3. ASSUME NEW e \in Exports, BeginNew(e) \/ BeginCurr(e) PROVE InTurn'
    BY <2>3, HandlingInTurn DEF BeginNew, BeginCurr, dialogs, Commands
  <2> QED BY <1>6, <2>1, <2>2, <2>3 DEF Handle
<1>7. ASSUME NEW t \in Threads, Thread(t) \/ LastEvent(t) PROVE InTurn'
  BY <1>1, <1>7, ThreadQuiet DEF dialogs, main
<1>8. CASE UNCHANGED vars
  BY <1>1, <1>8 DEF vars, dialogs, main
<1> QED BY <1>2, <1>3, <1>4, <1>5, <1>6, <1>7, <1>8 DEF Next

\* A thread whose song is over has written IDLE.
LEMMA ThreadHeard ==
    ASSUME TypeOK, NEW t \in Threads, Thread(t) \/ LastEvent(t), Loud(t), ~Loud(t)'
    PROVE  thr[t] = "playEnd" /\ SongOver(t) /\ state' = "IDLE"
<1>1. CASE Started(t) \/ Poll(t) \/ LastEvent(t)
  BY <1>1 DEF Started, Poll, LastEvent, Goto, Loud, TypeOK
<1>2. CASE SongOver(t)
  BY <1>2 DEF SongOver, Loud
<1>3. CASE Leave(t) \/ Finish(t) \/ Header(t)
  BY <1>3 DEF Leave, Finish, Header, Loud
<1> QED BY <1>1, <1>2, <1>3 DEF Thread

LEMMA NextSounding == TypeOK /\ Sounding /\ [Next]_vars => Sounding'
<1> SUFFICES ASSUME TypeOK, Sounding, [Next]_vars PROVE Sounding'
  OBVIOUS
<1>1. ASSUME UNCHANGED <<pc, oldstate>>, state' \in {"PAUSED", "SEEKING"} => state' = state
      PROVE  Sounding'
  BY <1>1 DEF Sounding
<1>2. CASE Play \/ Stop \/ Deliver
  BY <1>1, <1>2 DEF Play, JNIPlay, Stop, JNIStop, Deliver, player, main
<1>3. CASE Pause
  BY <1>3 DEF Pause, JNIPause, main, Sounding
<1>4. ASSUME NEW k \in Commands, Export(k) PROVE Sounding'
  BY <1>1, <1>4 DEF Export, player, main
<1>5. ASSUME NEW e \in Exports, Cancel(e) \/ Dialog(e) PROVE Sounding'
  BY <1>1, <1>5 DEF Cancel, Dialog, DialogLoop, DialogStop, Canceled, Wrote, JNIStop, player, main
<1>6. ASSUME NEW e \in Exports, Watcher(e) PROVE Sounding'
  BY <1>1, <1>6 DEF Watcher, WatchStart, WatchActive, WatchCurr, player, main
<1>7. CASE Handle
  <2>1. CASE StartNew
    BY <2>1 DEF StartNew, JNIPlay, player, Sounding
  <2>2. CASE StartCurr
    BY <2>2 DEF StartCurr, JNIPause, Sounding
  <2>3. CASE Unpaused \/ Seek \/ Sought
    BY <2>3 DEF Unpaused, Seek, Sought, player, Sounding
  <2>4. CASE PauseForCurr
    BY <2>4 DEF PauseForCurr, JNIPause, Sounding
  <2>5. ASSUME NEW e \in Exports, BeginNew(e) \/ BeginCurr(e) PROVE Sounding'
    BY <2>5 DEF BeginNew, BeginCurr, Handling, JNIStop, JNIPause, Sounding
  <2> QED BY <1>7, <2>1, <2>2, <2>3, <2>4, <2>5 DEF Handle
<1>8. ASSUME NEW t \in Threads, Thread(t) \/ LastEvent(t) PROVE Sounding'
  <2>1. state' \in {state, "PLAYING", "IDLE", "STOPPING"}
    BY <1>8 DEF Thread, Started, Poll, LastEvent, SongOver, Leave, Finish, Header
  <2> QED BY <1>1, <1>8, <2>1, ThreadQuiet DEF main
<1>9. CASE UNCHANGED vars
  BY <1>1, <1>9 DEF vars, player, main
<1> QED BY <1>2, <1>3, <1>4, <1>5, <1>6, <1>7, <1>8, <1>9 DEF Next

LEMMA NextHeard == TypeOK /\ Toggled /\ Sounding /\ Heard /\ [Next]_vars => Heard'
<1> SUFFICES ASSUME TypeOK, Toggled, Sounding, Heard, [Next]_vars PROVE Heard'
  OBVIOUS
<1>1. ASSUME UNCHANGED <<pc, thr>>, isActive' => state' = state \/ (pc = "free" /\ isActive)
      PROVE  Heard'
  BY <1>1 DEF Heard, Loud, isActive
<1>2. CASE Play
  BY <1>2 DEF Play, JNIPlay, Heard, isActive
<1>3. CASE Pause \/ Stop \/ Deliver
  BY <1>1, <1>3 DEF Pause, Stop, Deliver, JNIPause, JNIStop, isActive, player, main
<1>4. ASSUME NEW k \in Commands, Export(k) PROVE Heard'
  BY <1>1, <1>4 DEF Export, player, main, isActive
<1>5. ASSUME NEW e \in Exports, Cancel(e) \/ Dialog(e) PROVE Heard'
  <2>1. UNCHANGED <<pc, thr>> /\ (state' = state \/ state' = "REQSTOP")
    BY <1>5 DEF Cancel, Dialog, DialogLoop, DialogStop, Canceled, Wrote, JNIStop, player, main
  <2> QED BY <1>1, <2>1 DEF isActive
<1>6. ASSUME NEW e \in Exports, Watcher(e) PROVE Heard'
  BY <1>1, <1>6 DEF Watcher, WatchStart, WatchActive, WatchCurr, player, main, isActive
<1>7. CASE Handle
  <2>1. CASE StartNew
    BY <2>1 DEF StartNew, JNIPlay, player, Heard, isActive
  <2>2. CASE StartCurr
    <3>1. CASE state = "PAUSED"
      BY <2>2, <3>1 DEF StartCurr, Toggled, Heard, Loud
    <3>2. CASE state # "PAUSED"
      <4>1. thr' = thr /\ state' = state /\ pc = "ready"
        BY <2>2, <3>2 DEF StartCurr
      <4>2. isActive => \E t \in Threads : Loud(t)
        BY <4>1, <3>2 DEF Heard
      <4> QED BY <4>1, <4>2 DEF Heard, isActive, Loud
    <3> QED BY <3>1, <3>2
  <2>3. CASE Unpaused \/ Seek \/ Sought \/ PauseForCurr
    BY <2>3 DEF Unpaused, Seek, Sought, PauseForCurr, JNIPause, Heard, Sounding, isActive
  <2>4. ASSUME NEW e \in Exports, BeginNew(e) \/ BeginCurr(e) PROVE Heard'
    BY <2>4 DEF BeginNew, BeginCurr, Heard
  <2> QED BY <1>7, <2>1, <2>2, <2>3, <2>4 DEF Handle
<1>8. ASSUME NEW t \in Threads, Thread(t) \/ LastEvent(t) PROVE Heard'
  <2>1. /\ \A u \in Threads \ {t} : thr'[u] = thr[u]
        /\ pc' = pc
    BY <1>8, ThreadLeaves
  <2>2. isActive' => state' = state \/ Loud(t)'
    BY <1>8 DEF Thread, Started, Poll, LastEvent, SongOver, Leave, Finish, Header, isActive,
                Goto, Loud, TypeOK
  <2>3. isActive' /\ Loud(t) => Loud(t)'
    BY <1>8, ThreadHeard DEF isActive
  <2>4. isActive' => isActive \/ Loud(t)'
    BY <2>2 DEF isActive
  <2> QED BY <2>1, <2>2, <2>3, <2>4 DEF Heard, Loud, isActive
<1>9. CASE UNCHANGED vars
  BY <1>1, <1>9 DEF vars, player, main, isActive
<1> QED BY <1>2, <1>3, <1>4, <1>5, <1>6, <1>7, <1>8, <1>9 DEF Next

LEMMA NextAwaited ==
    TypeOK /\ Toggled /\ InTurn /\ Awaited /\ [Next]_vars => Awaited'
<1> SUFFICES ASSUME TypeOK, Toggled, InTurn, Awaited, [Next]_vars, Without({"missed"})',
                    NEW e \in Exports, e = special', watch'[e] = "toPlay"
             PROVE  \E t \in Threads : owner'[t] = e /\ Loud(t)'
  BY DEF Awaited
<1>1. e = special /\ watch[e] = "toPlay" => \E t \in Threads : owner[t] = e /\ Loud(t)
  BY History DEF Awaited, Without
<1>2. ASSUME special' = special, watch'[e] = watch[e], UNCHANGED <<thr, owner>>
      PROVE  \E t \in Threads : owner'[t] = e /\ Loud(t)'
  BY <1>1, <1>2 DEF Loud
<1>3. CASE Play
  <2>1. UNCHANGED <<special, watch>> /\ JNIPlay(0)
    BY <1>3 DEF Play, dialogs
  <2> QED BY <1>1, <2>1, PlayLeaves DEF Loud
<1>4. CASE StartNew
  <2>1. special' = special /\ watch' = [watch EXCEPT ![handled] = "toStart"]
    BY <1>4 DEF StartNew, dialogs
  <2>2. watch[e] = "toPlay"
    BY <2>1 DEF TypeOK
  <2>3. CASE JNIPlay(handled)
    BY <1>1, <2>1, <2>2, <2>3, PlayLeaves DEF Loud
  <2>4. CASE UNCHANGED player
    BY <1>1, <2>1, <2>2, <2>4 DEF Loud, player
  <2> QED BY <1>4, <2>3, <2>4 DEF StartNew
<1>5. CASE StartCurr
  <2>1. special' = special /\ thr' = thr /\ pc = "ready" /\ droid_rc = "none"
    BY <1>5 DEF StartCurr, dialogs
  <2>2. CASE state = "PAUSED"
    <3>1. PICK t \in Threads : thr[t] \in {"play", "playEnd"}
      BY <2>1, <2>2 DEF Toggled
    <3>2. owner'[t] = handled
      BY <1>5, <2>2, <3>1 DEF StartCurr, Alive
    <3>3. watch' = [watch EXCEPT ![handled] = "toPlay"]
      BY <1>5, <2>2 DEF StartCurr
    <3>4. CASE e = handled
      BY <2>1, <3>1, <3>2, <3>4 DEF Loud
    <3>5. CASE e # handled
      <4>1. watch[e] = "toPlay"
        BY <3>3, <3>5 DEF TypeOK
      <4>2. e < handled /\ handled <= e
        BY <2>1, <4>1 DEF InTurn
      <4> QED BY <4>2, MaxExportsAssumption DEF TypeOK, Exports
    <3> QED BY <3>4, <3>5
  <2>3. CASE state # "PAUSED"
    BY <1>2, <1>5, <2>1, <2>3 DEF StartCurr
  <2> QED BY <2>2, <2>3
<1>6. ASSUME NEW t \in Threads, Thread(t) \/ LastEvent(t)
      PROVE  \E u \in Threads : owner'[u] = e /\ Loud(u)'
  <2>1. e = special /\ watch[e] = "toPlay"
    BY <1>6, ThreadQuiet DEF dialogs
  <2>2. PICK u \in Threads : owner[u] = e /\ Loud(u)
    BY <1>1, <2>1
  <2>3. CASE u # t
    BY <1>6, <2>2, <2>3, ThreadLeaves DEF Loud
  <2>4. CASE u = t
    <3>1. owner'[t] = owner[t]
      BY <1>6, <2>2, <2>4, SongLeaves DEF Thread, Finish, Header, Loud
    <3>2. Loud(t)'
      <4> SUFFICES ASSUME ~Loud(t)' PROVE FALSE
        OBVIOUS
      <4>1. thr[t] = "playEnd" /\ SongOver(t)
        BY <1>6, <2>2, <2>4, ThreadHeard
      <4>2. When("missed", owner[t] # 0 /\ watch[owner[t]] = "toPlay") \subseteq mishaps'
        BY <4>1, RecordKeeps DEF SongOver
      <4>3. owner[t] # 0
        BY <2>2, <2>4, MaxExportsAssumption DEF Exports
      <4> QED BY <2>1, <2>2, <2>4, <4>2, <4>3 DEF When, Without
    <3> QED BY <2>2, <2>4, <3>1, <3>2
  <2> QED BY <2>3, <2>4
<1>7. CASE ~Play /\ ~StartNew /\ ~StartCurr /\ \A t \in Threads : ~(Thread(t) \/ LastEvent(t))
  <2>1. UNCHANGED <<thr, owner>>
    BY <1>7, OthersLeaveFiles
  <2>2. ASSUME NEW k \in Commands, Export(k) PROVE FALSE
    <3>1. special' = special + 1 /\ watch' = watch
      BY <2>2 DEF Export
    <3>2. e <= special
      BY <3>1 DEF InTurn
    <3> QED BY <3>1, <3>2 DEF TypeOK
  <2>3. CASE Pause \/ Stop \/ Deliver \/ UNCHANGED vars
    BY <1>2, <2>1, <2>3 DEF Pause, Stop, Deliver, vars, dialogs
  <2>4. ASSUME NEW x \in Exports, Cancel(x) \/ Dialog(x) PROVE UNCHANGED <<special, watch>>
    BY <2>4 DEF Cancel, Dialog, DialogLoop, DialogStop, Canceled, Wrote
  <2>5. ASSUME NEW x \in Exports, Watcher(x) PROVE special' = special /\ watch'[e] = watch[e]
    BY <2>5 DEF Watcher, WatchStart, WatchActive, WatchCurr, dialogs, TypeOK
  <2>6. CASE Handle
    <3>1. CASE Unpaused \/ Seek \/ Sought \/ PauseForCurr
      BY <1>2, <2>1, <3>1 DEF Unpaused, Seek, Sought, PauseForCurr, dialogs
    <3>2. ASSUME NEW x \in Exports, BeginNew(x) \/ BeginCurr(x)
          PROVE  UNCHANGED <<special, watch>>
      BY <3>2 DEF BeginNew, BeginCurr, dialogs
    <3> QED BY <1>2, <1>7, <2>1, <2>6, <3>1, <3>2 DEF Handle
  <2> QED BY <1>2, <1>7, <2>1, <2>2, <2>3, <2>4, <2>5, <2>6 DEF Next
<1> QED BY <1>3, <1>4, <1>5, <1>6, <1>7

LEMMA Appended ==
    ASSUME NEW q \in Seq(Exports), NEW x \in Exports PROVE Append(q, x) # <<>>
<1> SUFFICES ASSUME Append(q, x) = <<>> PROVE FALSE
  OBVIOUS
<1>1. Len(Append(q, x)) = Len(q) + 1 /\ Len(q) \in Nat
  OBVIOUS
<1>2. Len(<<>>) = 0
  OBVIOUS
<1>3. Len(q) + 1 = 0
  BY <1>1, <1>2
<1> QED BY <1>1, <1>3

LEMMA NextTold == TypedInv /\ InTurn /\ Told /\ [Next]_vars => Told'
<1> DEFINE Tells(e) == \/ \E k \in Commands : <<e, k>> \in requests
                       \/ pc # "free" /\ handled = e
                       \/ watch[e] # "none"
                       \/ notices # <<>>
<1> SUFFICES ASSUME TypeOK, InTurn, Told, [Next]_vars, Without({"refused"})',
                    NEW e \in Exports, dlg'[e] = "converting", e \notin done'
             PROVE  Tells(e)'
  BY DEF Told, TypedInv
<1>1. dlg[e] = "converting" /\ e \notin done => Tells(e)
  BY History DEF Told, Without
<1>2. ASSUME UNCHANGED <<dlg, done, requests, pc, handled, watch, notices>> PROVE Tells(e)'
  BY <1>1, <1>2
<1>3. CASE Play \/ Pause \/ Stop \/ UNCHANGED vars
  BY <1>2, <1>3 DEF Play, Pause, Stop, vars, dialogs, main
<1>4. CASE Deliver
  <2>1. dlg' = dlg /\ done' = done \cup {special}
    BY <1>4 DEF Deliver
  <2> QED BY <2>1 DEF InTurn
<1>5. ASSUME NEW k \in Commands, Export(k) PROVE Tells(e)'
  <2>1. /\ requests' = requests \cup {<<special + 1, k>>}
        /\ dlg' = [dlg EXCEPT ![special + 1] = "converting"]
        /\ UNCHANGED <<done, pc, handled, watch, notices>>
    BY <1>5 DEF Export, main
  <2>2. CASE e = special + 1
    BY <2>1, <2>2
  <2>3. CASE e # special + 1
    BY <1>1, <2>1, <2>3 DEF TypeOK
  <2> QED BY <2>2, <2>3
<1>6. ASSUME NEW x \in Exports, Cancel(x) \/ Dialog(x) PROVE Tells(e)'
  <2>1. UNCHANGED <<done, requests, pc, handled, watch, notices>>
    BY <1>6 DEF Cancel, Dialog, DialogLoop, DialogStop, Canceled, Wrote, main
  <2>2. dlg[e] = "converting"
    BY <1>6 DEF Cancel, Dialog, DialogLoop, DialogStop, Canceled, Wrote, TypeOK
  <2> QED BY <1>1, <2>1, <2>2
<1>7. ASSUME NEW x \in Exports, Watcher(x) PROVE Tells(e)'
  <2>1. /\ UNCHANGED <<dlg, done, requests, pc, handled>>
        /\ \/ notices' = Append(notices, x)
           \/ notices' = notices /\ (watch[e] # "none" => watch'[e] # "none")
    BY <1>7 DEF Watcher, WatchStart, WatchActive, WatchCurr, dialogs, main, TypeOK
  <2>2. Append(notices, x) # <<>>
    BY Appended DEF TypeOK
  <2> QED BY <1>1, <2>1, <2>2
<1>8. CASE Handle
  <2>1. CASE StartNew \/ StartCurr
    <3>1. UNCHANGED <<dlg, done, requests, notices>>
      BY <2>1 DEF StartNew, StartCurr, dialogs
    <3>2. watch' = [watch EXCEPT ![handled] = "toStart"]
          \/ watch' = [watch EXCEPT ![handled] = "toPlay"]
      BY <2>1, RecordKeeps DEF StartNew, StartCurr, Without
    <3> QED BY <1>1, <3>1, <3>2 DEF TypeOK
  <2>2. CASE Unpaused \/ Seek \/ Sought \/ PauseForCurr
    <3>1. UNCHANGED <<dlg, done, requests, handled, watch, notices>> /\ pc' # "free"
      BY <2>2 DEF Unpaused, Seek, Sought, PauseForCurr, dialogs
    <3> QED BY <1>1, <3>1
  <2>3. ASSUME NEW x \in Exports, NEW k \in Commands, Handling(x, k), pc' # "free",
               UNCHANGED <<dlg, done, watch, notices>>
        PROVE  Tells(e)'
    <3>1. /\ pc = "free" /\ <<x, k>> \in requests
          /\ requests' = requests \ {<<x, k>>} /\ handled' = x
      BY <2>3 DEF Handling
    <3>2. CASE e = x
      BY <2>3, <3>1, <3>2
    <3>3. CASE e # x
      BY <1>1, <2>3, <3>1, <3>3
    <3> QED BY <3>2, <3>3
  <2>4. ASSUME NEW x \in Exports, BeginNew(x) \/ BeginCurr(x) PROVE Tells(e)'
    BY <2>3, <2>4 DEF BeginNew, BeginCurr, dialogs, Commands
  <2> QED BY <1>8, <2>1, <2>2, <2>4 DEF Handle
<1>9. ASSUME NEW t \in Threads, Thread(t) \/ LastEvent(t) PROVE Tells(e)'
  BY <1>2, <1>9, ThreadQuiet DEF dialogs, main
<1> QED BY <1>3, <1>4, <1>5, <1>6, <1>7, <1>8, <1>9 DEF Next

\* When nothing is going on any more no dialog is still converting, for any number
\* of exports and any threads, unless the player refused a song or the song of
\* write_curr was over before its watcher saw it play.
THEOREM DialogsClose == Spec => []DialogCloses
<1>1. Init => Toggled /\ InTurn /\ Sounding /\ Heard /\ Awaited /\ Told
  BY DEF Init, Toggled, InTurn, Sounding, Heard, Awaited, Told, isActive
<1>2. TypedInv /\ InTurn /\ Heard /\ Awaited /\ Told => DialogCloses
  <2> SUFFICES ASSUME TypeOK, InTurn, Heard, Awaited, Told, Quiet,
                      Without({"refused", "missed"}),
                      NEW e \in Exports, dlg[e] = "converting"
               PROVE  FALSE
    BY DEF DialogCloses, TypedInv
  <2>1. Without({"refused"}) /\ Without({"missed"})
    BY DEF Without
  <2>2. e \notin done /\ watch[e] # "none"
    BY <2>1 DEF Quiet, Told
  <2>3. ~isActive
    BY DEF Quiet, Heard, Loud, Alive
  <2>4. watch[e] \notin {"active", "playing", "toStart"}
    BY <2>3 DEF Quiet, isActive
  <2>5. watch[e] = "toPlay"
    BY <2>2, <2>4 DEF TypeOK, WatchCode
  <2>6. PICK t \in Threads : Loud(t)
    BY <2>1, <2>5 DEF Awaited, InTurn
  <2> QED BY <2>6 DEF Quiet, Alive, Loud
<1>3. TypedInv => TypeOK
  BY DEF TypedInv
<1> QED BY <1>1, <1>2, <1>3, InitTyped, NextTyped, NextToggled, NextInTurn, NextSounding,
           NextHeard, NextAwaited, NextTold, PTL DEF Spec

----------------------------------------------------------------------------
(* What is reported was written to its end                                 *)

\* What excuses a song that is not written to its last event.
Excuses == {"refused", "early", "mistaken", "stopped", "overlap", "unread"}

\* A song of an export is older than every command still to be served, and
\* nothing is told of an export that was not asked for.
Owned ==
    /\ \A t \in Threads : owner[t] # 0 =>
          /\ owner[t] <= special
          /\ \A r \in requests : owner[t] < r[1]
          /\ pc # "free" => owner[t] < handled
    /\ \A i \in 1..Len(notices) : notices[i] <= special
    /\ \A e \in done : e <= special

\* A stop in the slot has a song that will read it.
Heeded == Without({"unread"}) /\ droid_rc = "stop" => Listening

\* The song of an export is going into its file.
Written ==
    Without({"overlap", "refused"}) =>
        \A t \in Threads : thr[t] \in {"start", "entry", "play"} /\ owner[t] # 0 =>
            Writing /\ owner[t] = current

\* The last export was written up to its last event, or canceled.
Settled(e) == e \in ended \/ Cancelled(e)

\* Whoever says that the last export has finished says so of one that is settled:
\* no stop is on its way to its song but its own, its watcher only speaks when
\* the song is over, and what it says is not mistaken for the next one's.
Ending ==
    Without(Excuses) =>
        \A e \in Exports :
            /\ e = special /\ Going(e) /\ droid_rc = "stop" => Cancelled(e)
            /\ e = special /\ watch[e] # "none" /\ ~Going(e) => Settled(e)
            /\ e = special /\ (\E i \in 1..Len(notices) : notices[i] = e) => Settled(e)
            /\ e \in done => Settled(e)
            /\ dlg[e] \in {"copying", "wrote"} => e \in ended

\* What the service does with an export that starts.
LEMMA StartNewLeaves ==
    ASSUME TypeOK, StartNew, Without({"overlap", "refused"})'
    PROVE  /\ \A t \in Threads : ~Alive(t)
           /\ \E t \in Threads : /\ thr'[t] = "start" /\ owner'[t] = handled
                                 /\ \A u \in Threads \ {t} : thr'[u] = "dead"
           /\ current' = handled /\ open' = open \cup {handled}
           /\ UNCHANGED <<droid_rc, ended>>
<1>1. JNIPlay(handled) /\ Record(When("overlap", \E t \in Threads : Alive(t)))
  BY RecordKeeps DEF StartNew, Without
<1>2. \A t \in Threads : ~Alive(t)
  BY <1>1, RecordKeeps DEF When, Without
<1>3. UNCHANGED droid_rc
  BY <1>1 DEF JNIPlay
<1> QED BY <1>1, <1>2, <1>3, PlayLeaves DEF StartNew, SetupOutputFile, Alive

LEMMA StartCurrLeaves ==
    ASSUME StartCurr, Without({"refused"})'
    PROVE  /\ pc = "ready" /\ droid_rc = "none" /\ state = "PAUSED"
           /\ thr' = thr /\ droid_rc' = "toggle" /\ Record(PostMishaps)
           /\ owner' = [t \in Threads |-> IF Alive(t) THEN handled ELSE owner[t]]
           /\ watch' = [watch EXCEPT ![handled] = "toPlay"]
           /\ current' = handled /\ open' = open \cup {handled} /\ ended' = ended
<1>1. state = "PAUSED"
  BY RecordKeeps DEF StartCurr, Without
<1> QED BY <1>1 DEF StartCurr, JNIPause, Post, SetupOutputFile

LEMMA NextOwned == TypedInv /\ InTurn /\ Owned /\ [Next]_vars => Owned'
<1> SUFFICES ASSUME TypeOK, Served, InTurn, Owned, [Next]_vars PROVE Owned'
  BY DEF TypedInv
<1>0. /\ special \in Nat /\ handled \in Nat /\ \A t \in Threads : owner[t] \in Nat
      /\ \A i \in 1..Len(notices) : notices[i] \in Nat
      /\ \A e \in done : e \in Nat
  BY MaxExportsAssumption DEF TypeOK, Exports
<1>1. ASSUME UNCHANGED <<special, requests, pc, handled, notices, done>>,
             \A t \in Threads : owner'[t] \in {owner[t], 0}
      PROVE  Owned'
  BY <1>1 DEF Owned
<1>2. CASE Play
  <2>1. JNIPlay(0) /\ UNCHANGED <<special, requests, pc, handled, notices, done>>
    BY <1>2 DEF Play, dialogs, main
  <2> QED BY <1>1, <2>1, PlayLeaves
<1>3. CASE Pause \/ Stop \/ UNCHANGED vars
  BY <1>1, <1>3 DEF Pause, Stop, vars, player, dialogs, main
<1>4. CASE Deliver
  <2>1. /\ notices # <<>> /\ notices' = Tail(notices) /\ done' = done \cup {special}
        /\ UNCHANGED <<owner, special, requests, pc, handled>>
    BY <1>4 DEF Deliver, player, main
  <2>2. \A i \in 1..Len(notices') : notices'[i] = notices[i + 1] /\ i + 1 \in 1..Len(notices)
    <3>1. notices \in Seq(Exports)
      BY DEF TypeOK
    <3> QED BY <2>1, <3>1
  <2> QED BY <1>0, <2>1, <2>2 DEF Owned
<1>5. ASSUME NEW k \in Commands, Export(k) PROVE Owned'
  <2>1. /\ pc = "free" /\ special' = special + 1
        /\ requests' = requests \cup {<<special + 1, k>>}
        /\ UNCHANGED <<owner, pc, notices, done>>
    BY <1>5 DEF Export, player, main
  <2> QED BY <1>0, <2>1 DEF Owned
<1>6. ASSUME NEW e \in Exports, Cancel(e) \/ Dialog(e) PROVE Owned'
  BY <1>1, <1>6 DEF Cancel, Dialog, DialogLoop, DialogStop, Canceled, Wrote, player, main
<1>7. ASSUME NEW e \in Exports, Watcher(e) PROVE Owned'
  <2>1. /\ UNCHANGED <<owner, special, requests, pc, handled, done>>
        /\ \/ notices' = notices
           \/ watch[e] # "none" /\ notices' = Append(notices, e)
    BY <1>7 DEF Watcher, WatchStart, WatchActive, WatchCurr, player, dialogs, main
  <2>2. CASE notices' = notices
    BY <1>1, <2>1, <2>2
  <2>3. CASE watch[e] # "none" /\ notices' = Append(notices, e)
    <3>1. e <= special /\ notices \in Seq(Exports)
      BY <2>3 DEF InTurn, TypeOK
    <3>2. \A i \in 1..Len(notices') : notices'[i] = e \/ (i \in 1..Len(notices) /\ notices'[i] = notices[i])
      BY <2>3, <3>1
    <3>3. \A i \in 1..Len(notices') : notices'[i] <= special
      BY <3>1, <3>2 DEF Owned
    <3> QED BY <2>1, <3>3 DEF Owned
  <2> QED BY <2>1, <2>2, <2>3
<1>8. CASE Handle
  <2>1. CASE StartNew \/ StartCurr
    <3>1. /\ pc # "free" /\ pc' = "free" /\ UNCHANGED <<requests, special, notices, done>>
      BY <2>1 DEF StartNew, StartCurr, dialogs
    <3>2. \A t \in Threads : owner'[t] \in {owner[t], handled}
      BY <2>1, PlayLeaves DEF StartNew, StartCurr, player, TypeOK
    <3>3. handled <= special /\ \A r \in requests : handled < r[1]
      BY <3>1 DEF InTurn
    <3> QED BY <3>1, <3>2, <3>3 DEF Owned
  <2>2. CASE Unpaused \/ Seek \/ Sought \/ PauseForCurr
    <3>1. /\ pc # "free" /\ pc' # "free"
          /\ UNCHANGED <<owner, requests, special, handled, notices, done>>
      BY <2>2 DEF Unpaused, Seek, Sought, PauseForCurr, player, dialogs
    <3> QED BY <3>1 DEF Owned
  <2>3. ASSUME NEW e \in Exports, NEW k \in Commands, Handling(e, k),
               UNCHANGED <<owner, special, notices, done>>
        PROVE  Owned'
    <3>1. /\ pc = "free" /\ <<e, k>> \in requests
          /\ requests' = requests \ {<<e, k>>} /\ handled' = e
      BY <2>3 DEF Handling
    <3>2. \A t \in Threads : owner[t] # 0 => owner[t] < e
      BY <3>1 DEF Owned
    <3> QED BY <2>3, <3>1, <3>2 DEF Owned
  <2>4. ASSUME NEW e \in Exports, BeginNew(e) \/ BeginCurr(e) PROVE Owned'
    BY <2>3, <2>4 DEF BeginNew, BeginCurr, dialogs, Commands
  <2> QED BY <1>8, <2>1, <2>2, <2>4 DEF Handle
<1>9. ASSUME NEW t \in Threads, Thread(t) \/ LastEvent(t) PROVE Owned'
  <2>1. \A u \in Threads \ {t} : owner'[u] = owner[u]
    BY <1>9, ThreadLeaves
  <2>2. owner'[t] \in {owner[t], 0}
    BY <1>9, SongLeaves DEF Thread, Finish, Header, Die, TypeOK
  <2> QED BY <1>1, <1>9, <2>1, <2>2, ThreadQuiet DEF dialogs, main
<1> QED BY <1>2, <1>3, <1>4, <1>5, <1>6, <1>7, <1>8, <1>9 DEF Next

\* A stop that nobody is there to read is recorded.
LEMMA StopHeeded ==
    ASSUME NEW kinds, JNIStop(kinds), Without({"unread"})'
    PROVE  Listening
<1>1. When("unread", ~Listening) \subseteq mishaps'
  BY RecordKeeps DEF JNIStop, PostMishaps
<1> QED BY <1>1 DEF When, Without

LEMMA NextHeeded == TypeOK /\ Heeded /\ [Next]_vars => Heeded'
<1> SUFFICES ASSUME TypeOK, Heeded, [Next]_vars, Without({"unread"})', droid_rc' = "stop"
             PROVE  Listening'
  BY DEF Heeded
<1>1. droid_rc = "stop" => Listening
  BY History DEF Heeded, Without
<1>2. ASSUME thr' = thr, droid_rc' = droid_rc PROVE Listening'
  BY <1>1, <1>2 DEF Listening
<1>3. ASSUME thr' = thr, NEW kinds, JNIStop(kinds) PROVE Listening'
  BY <1>3, StopHeeded DEF Listening
<1>4. ASSUME NEW e, JNIPlay(e) PROVE Listening'
  BY <1>4, PlayLeaves DEF Listening
<1>5. CASE Play
  BY <1>4, <1>5 DEF Play
<1>6. CASE Pause
  BY <1>2, <1>6 DEF Pause, JNIPause, Post
<1>7. CASE Stop
  BY <1>3, <1>7 DEF Stop
<1>8. CASE Deliver \/ UNCHANGED vars
  BY <1>2, <1>8 DEF Deliver, vars, player
<1>9. ASSUME NEW k \in Commands, Export(k) PROVE Listening'
  BY <1>2, <1>9 DEF Export, player
<1>10. ASSUME NEW e \in Exports, Cancel(e) \/ Dialog(e) PROVE Listening'
  <2>1. CASE DialogStop(e)
    BY <1>3, <2>1 DEF DialogStop
  <2>2. CASE Cancel(e) \/ DialogLoop(e) \/ Canceled(e) \/ Wrote(e)
    BY <1>2, <2>2 DEF Cancel, DialogLoop, Canceled, Wrote, player
  <2> QED BY <1>10, <2>1, <2>2 DEF Dialog
<1>11. ASSUME NEW e \in Exports, Watcher(e) PROVE Listening'
  BY <1>2, <1>11 DEF Watcher, WatchStart, WatchActive, WatchCurr, player
<1>12. CASE Handle
  <2>1. CASE StartNew
    BY <1>2, <1>4, <2>1 DEF StartNew, player
  <2>2. CASE StartCurr \/ PauseForCurr
    BY <1>2, <2>2 DEF StartCurr, PauseForCurr, JNIPause, Post
  <2>3. CASE Unpaused \/ Seek \/ Sought
    BY <1>2, <2>3 DEF Unpaused, Seek, Sought, Post, player
  <2>4. ASSUME NEW e \in Exports, BeginNew(e) PROVE Listening'
    BY <1>2, <1>3, <2>4 DEF BeginNew
  <2>5. ASSUME NEW e \in Exports, BeginCurr(e) PROVE Listening'
    BY <1>2, <2>5 DEF BeginCurr, JNIPause, Post
  <2> QED BY <1>12, <2>1, <2>2, <2>3, <2>4, <2>5 DEF Handle
<1>13. ASSUME NEW t \in Threads, Thread(t) \/ LastEvent(t) PROVE Listening'
  <2>1. \A u \in Threads \ {t} : thr'[u] = thr[u]
    BY <1>13, ThreadLeaves
  <2>2. CASE Started(t)
    BY <2>2 DEF Started, Goto, Listening, TypeOK
  <2>3. CASE Poll(t)
    BY <2>3 DEF Poll
  <2>4. CASE LastEvent(t)
    <3>1. When("unread", droid_rc # "none") \subseteq mishaps' /\ droid_rc' = droid_rc
      BY <2>4, RecordKeeps DEF LastEvent
    <3> QED BY <3>1 DEF When, Without
  <2>5. CASE SongOver(t) \/ Leave(t) \/ Finish(t) \/ Header(t)
    <3>1. thr[t] \notin {"start", "entry", "play"} /\ droid_rc' = droid_rc
      BY <2>5 DEF SongOver, Leave, Finish, Header
    <3> QED BY <1>1, <2>1, <3>1 DEF Listening
  <2> QED BY <1>13, <2>2, <2>3, <2>4, <2>5 DEF Thread
<1> QED BY <1>5, <1>6, <1>7, <1>8, <1>9, <1>10, <1>11, <1>12, <1>13 DEF Next

LEMMA NextWritten == TypeOK /\ Single /\ Written /\ [Next]_vars => Written'
<1> SUFFICES ASSUME TypeOK, Single, Written, [Next]_vars, Without({"overlap", "refused"})',
                    NEW u \in Threads, thr'[u] \in {"start", "entry", "play"}, owner'[u] # 0
             PROVE  Writing' /\ owner'[u] = current'
  BY DEF Written
<1>1. thr[u] \in {"start", "entry", "play"} /\ owner[u] # 0 => Writing /\ owner[u] = current
  BY History DEF Written, Without
<1>2. \A t, v \in Threads : Alive(t) /\ Alive(v) => t = v
  BY History DEF Single, Without
<1>3. CASE Play
  <2>1. JNIPlay(0) /\ UNCHANGED <<current, open>>
    BY <1>3 DEF Play, writers
  <2> QED BY <1>1, <2>1, PlayLeaves DEF Writing
<1>4. CASE StartNew
  BY <1>4, StartNewLeaves DEF Writing
<1>5. CASE StartCurr
  <2>1. Without({"refused"})'
    BY DEF Without
  <2> QED BY <1>5, <2>1, StartCurrLeaves DEF Writing, Alive
<1>6. ASSUME NEW t \in Threads, Thread(t) \/ LastEvent(t)
      PROVE  Writing' /\ owner'[u] = current'
  <2>1. thr[t] # "dead" /\ (u # t => thr'[u] = thr[u])
    BY <1>6, ThreadLeaves
  <2>2. CASE Started(t) \/ Poll(t) \/ LastEvent(t) \/ SongOver(t) \/ Leave(t)
    <3>1. UNCHANGED <<owner, current, open>>
      BY <2>2, SongLeaves
    <3>2. thr'[t] \in {"start", "entry", "play"} => thr[t] \in {"start", "entry", "play"}
      BY <2>2 DEF Started, Poll, LastEvent, SongOver, Leave, Goto, TypeOK
    <3> QED BY <1>1, <2>1, <3>1, <3>2 DEF Writing
  <2>3. CASE Finish(t) \/ Header(t)
    <3>1. thr'[t] \in {"header", "dead"}
      BY <2>3 DEF Finish, Header, Die, Goto, TypeOK
    <3> QED BY <1>2, <2>1, <3>1 DEF Alive
  <2> QED BY <1>6, <2>2, <2>3 DEF Thread
<1>7. CASE ~Play /\ ~StartNew /\ ~StartCurr /\ \A t \in Threads : ~(Thread(t) \/ LastEvent(t))
  BY <1>1, <1>7, OthersLeaveFiles DEF Writing
<1> QED BY <1>3, <1>4, <1>5, <1>6, <1>7

\* What Ending says of an export.
Ends(e) ==
    /\ e = special /\ Going(e) /\ droid_rc = "stop" => Cancelled(e)
    /\ e = special /\ watch[e] # "none" /\ ~Going(e) => Settled(e)
    /\ e = special /\ (\E i \in 1..Len(notices) : notices[i] = e) => Settled(e)
    /\ e \in done => Settled(e)
    /\ dlg[e] \in {"copying", "wrote"} => e \in ended

LEMMA NextEnding ==
    TypedInv /\ Toggled /\ Single /\ InTurn /\ Owned /\ Heeded /\ Written /\ Ending /\ [Next]_vars
        => Ending'
<1> SUFFICES ASSUME TypeOK, Served, Toggled, Single, InTurn, Owned, Heeded, Written, Ending,
                    [Next]_vars, Without(Excuses)', NEW e \in Exports
             PROVE  Ends(e)'
  BY DEF Ending, Ends, TypedInv
<1>1. /\ Ends(e) /\ Without(Excuses)
      /\ Without({"overlap", "refused"})' /\ Without({"refused"})' /\ Without({"unread"})'
  BY History DEF Ending, Ends, Without, Excuses
<1>2. /\ \A t \in Threads : thr[t] \in {"start", "entry", "play"} /\ owner[t] # 0 =>
                               Writing /\ owner[t] = current
      /\ droid_rc = "stop" => Listening
  BY <1>1 DEF Written, Heeded, Without, Excuses
<1>3. e # 0 /\ e \in Nat /\ special \in Nat
  BY MaxExportsAssumption DEF Exports, TypeOK
<1>4. Going(e) => Writing /\ current = e
  BY <1>2, <1>3 DEF Going
<1>5. ASSUME UNCHANGED <<special, thr, owner, watch, notices, done, ended, dlg>>,
             droid_rc' = "stop" => droid_rc = "stop"
      PROVE  Ends(e)'
  BY <1>1, <1>5 DEF Ends, Settled, Cancelled, Going
<1>6. CASE Play
  <2>1. JNIPlay(0) /\ UNCHANGED <<special, droid_rc, watch, notices, done, ended, dlg>>
    BY <1>6 DEF Play, JNIPlay, writers, dialogs
  <2>2. Going(e)' <=> Going(e)
    BY <1>3, <2>1, PlayLeaves DEF Going
  <2> QED BY <1>1, <2>1, <2>2 DEF Ends, Settled, Cancelled
<1>7. CASE Pause
  BY <1>5, <1>7 DEF Pause, JNIPause, Post, writers, dialogs
<1>8. CASE Stop
  <2>1. /\ UNCHANGED <<special, thr, owner, watch, notices, done, ended, dlg>>
        /\ When("stopped", Writing) \subseteq mishaps'
    BY <1>8, RecordKeeps DEF Stop, JNIStop, writers, dialogs
  <2>2. ~Writing
    BY <1>1, <2>1 DEF When, Without, Excuses
  <2>3. ~Going(e) /\ ~Going(e)'
    BY <1>4, <2>1, <2>2 DEF Going
  <2> QED BY <1>1, <2>1, <2>3 DEF Ends, Settled, Cancelled
<1>9. CASE Deliver
  <2>1. /\ UNCHANGED <<special, thr, owner, droid_rc, watch, ended, dlg>>
        /\ notices # <<>> /\ notices' = Tail(notices) /\ done' = done \cup {special}
        /\ When("mistaken", Head(notices) # special) \subseteq mishaps'
    BY <1>9, RecordKeeps DEF Deliver, player, writers
  <2>2. Head(notices) = special
    BY <1>1, <2>1 DEF When, Without, Excuses
  <2>3. notices \in Seq(Exports)
    BY DEF TypeOK
  <2>4. 1 \in 1..Len(notices) /\ notices[1] = special
    BY <2>1, <2>2, <2>3
  <2>5. \A i \in 1..Len(notices') : notices'[i] = notices[i + 1] /\ i + 1 \in 1..Len(notices)
    BY <2>1, <2>3
  <2>6. e = special => Settled(e)
    BY <1>1, <2>4 DEF Ends
  <2> QED BY <1>1, <2>1, <2>5, <2>6 DEF Ends, Settled, Cancelled, Going
<1>10. ASSUME NEW k \in Commands, Export(k) PROVE Ends(e)'
  <2>1. /\ special' = special + 1
        /\ dlg' = [dlg EXCEPT ![special + 1] = "converting"]
        /\ UNCHANGED <<thr, owner, droid_rc, watch, notices, done, ended>>
    BY <1>10 DEF Export, player, writers
  <2>2. CASE e = special + 1
    <3>1. watch[e] = "none" /\ e \notin done /\ ~\E i \in 1..Len(notices) : notices[i] = e
      BY <1>3, <2>2 DEF InTurn, Owned
    <3>2. ~Going(e)
      BY <1>3, <2>2 DEF Owned, Going
    <3>3. dlg'[e] = "converting"
      BY <2>1, <2>2 DEF TypeOK
    <3> QED BY <2>1, <3>1, <3>2, <3>3 DEF Ends, Going
  <2>3. CASE e # special + 1
    <3>1. dlg'[e] = dlg[e]
      BY <2>1, <2>3 DEF TypeOK
    <3> QED BY <1>1, <2>1, <2>3, <3>1 DEF Ends, Settled, Cancelled
  <2> QED BY <2>2, <2>3
<1>11. ASSUME NEW x \in Exports, Cancel(x) \/ Dialog(x) PROVE Ends(e)'
  <2>1. UNCHANGED <<special, thr, owner, watch, notices, done, ended>>
    BY <1>11 DEF Cancel, Dialog, DialogLoop, DialogStop, Canceled, Wrote, player, writers
  <2>2. Cancelled(e) => Cancelled(e)'
    BY <1>11 DEF Cancel, Dialog, DialogLoop, DialogStop, Canceled, Wrote, Cancelled, TypeOK
  <2>3. dlg'[e] \in {"copying", "wrote"} =>
            dlg[e] \in {"copying", "wrote"} \/ (e \in done /\ ~Cancelled(e))
    BY <1>11 DEF Cancel, Dialog, DialogLoop, DialogStop, Canceled, Wrote, Cancelled, TypeOK
  <2>4. Going(e)' <=> Going(e)
    BY <2>1 DEF Going
  <2>5. e = special /\ Going(e) /\ droid_rc' = "stop" => Cancelled(e)'
    <3>1. CASE DialogStop(x)
      <4>1. When("stopped", Writing /\ current # x) \subseteq mishaps'
        BY <3>1, RecordKeeps DEF DialogStop, JNIStop
      <4>2. ~(Writing /\ current # x)
        BY <1>1, <4>1 DEF When, Without, Excuses
      <4>3. dlg'[x] = "canceling"
        BY <3>1 DEF DialogStop, TypeOK
      <4> QED BY <1>4, <4>2, <4>3 DEF Cancelled
    <3>2. CASE ~DialogStop(x)
      <4>1. droid_rc' = droid_rc
        BY <1>11, <3>2 DEF Cancel, Dialog, DialogLoop, Canceled, Wrote, player
      <4> QED BY <1>1, <2>2, <4>1 DEF Ends
    <3> QED BY <3>1, <3>2
  <2> QED BY <1>1, <2>1, <2>2, <2>3, <2>4, <2>5 DEF Ends, Settled
<1>12. ASSUME NEW x \in Exports, Watcher(x) PROVE Ends(e)'
  <2>1. UNCHANGED <<special, thr, owner, droid_rc, done, ended, dlg>>
    BY <1>12 DEF Watcher, WatchStart, WatchActive, WatchCurr, player, writers, dialogs
  <2>2. watch'[e] # "none" => watch[e] # "none"
    BY <1>12 DEF Watcher, WatchStart, WatchActive, WatchCurr, TypeOK
  <2>3. CASE notices' = notices
    BY <1>1, <2>1, <2>2, <2>3 DEF Ends, Settled, Cancelled, Going
  <2>4. CASE /\ watch[x] # "none" /\ notices' = Append(notices, x)
             /\ When("early", Going(x)) \subseteq mishaps'
    <3>1. ~Going(x)
      BY <1>1, <2>4 DEF When, Without, Excuses
    <3>2. notices \in Seq(Exports)
      BY DEF TypeOK
    <3>3. \A i \in 1..Len(notices') :
              notices'[i] = x \/ (i \in 1..Len(notices) /\ notices'[i] = notices[i])
      BY <2>4, <3>2
    <3>4. e = special /\ e = x => Settled(e)
      BY <1>1, <2>4, <3>1 DEF Ends
    <3> QED BY <1>1, <2>1, <2>2, <3>3, <3>4 DEF Ends, Settled, Cancelled, Going
  <2> QED BY <1>12, <2>3, <2>4, RecordKeeps DEF Watcher, WatchStart, WatchActive, WatchCurr
<1>13. CASE Handle
  <2>1. CASE StartNew
    <3>1. /\ UNCHANGED <<special, notices, done, dlg, ended>> /\ pc # "free"
          /\ watch' = [watch EXCEPT ![handled] = "toStart"]
      BY <2>1 DEF StartNew, SetupOutputFile, dialogs
    <3>2. /\ \A t \in Threads : ~Alive(t)
          /\ \E t \in Threads : thr'[t] = "start" /\ owner'[t] = handled
          /\ droid_rc' = droid_rc
      BY <1>1, <2>1, StartNewLeaves
    <3>3. droid_rc' # "stop"
      BY <1>2, <3>2 DEF Listening, Alive
    <3>4. e = special /\ watch'[e] # "none" => Going(e)'
      <4>1. CASE e = handled
        BY <3>2, <4>1 DEF Going
      <4>2. CASE e # handled
        <5>1. watch'[e] = watch[e]
          BY <3>1, <4>2 DEF TypeOK
        <5>2. handled \in Nat /\ handled <= special
          BY <3>1, MaxExportsAssumption DEF TypeOK, InTurn
        <5> QED BY <1>3, <3>1, <5>1, <5>2 DEF InTurn
      <4> QED BY <4>1, <4>2
    <3> QED BY <1>1, <3>1, <3>3, <3>4 DEF Ends, Settled, Cancelled
  <2>2. CASE StartCurr
    <3>1. UNCHANGED <<special, notices, done, dlg>>
      BY <2>2 DEF StartCurr, dialogs
    <3>2. /\ pc = "ready" /\ thr' = thr /\ droid_rc' = "toggle" /\ Record(PostMishaps)
          /\ owner' = [t \in Threads |-> IF Alive(t) THEN handled ELSE owner[t]]
          /\ watch' = [watch EXCEPT ![handled] = "toPlay"]
          /\ ended' = ended
      BY <1>1, <2>2, StartCurrLeaves
    <3>3. Listening
      <4>1. When("unread", ~Listening) \subseteq mishaps'
        BY <3>2, RecordKeeps DEF PostMishaps
      <4> QED BY <1>1, <4>1 DEF When, Without
    <3>4. e = special /\ watch'[e] # "none" => Going(e)'
      <4>1. CASE e = handled
        BY <3>2, <3>3, <4>1 DEF Going, Listening, Alive
      <4>2. CASE e # handled
        <5>1. watch'[e] = watch[e]
          BY <3>2, <4>2 DEF TypeOK
        <5>2. handled \in Nat /\ handled <= special
          BY <3>2, MaxExportsAssumption DEF TypeOK, InTurn
        <5> QED BY <1>3, <3>2, <5>1, <5>2 DEF InTurn
      <4> QED BY <4>1, <4>2
    <3> QED BY <1>1, <3>1, <3>2, <3>4 DEF Ends, Settled, Cancelled
  <2>3. CASE Unpaused \/ Seek \/ Sought
    BY <1>5, <2>3 DEF Unpaused, Seek, Sought, Post, player, writers, dialogs
  <2>4. CASE PauseForCurr
    BY <1>5, <2>4 DEF PauseForCurr, JNIPause, Post, writers, dialogs
  <2>5. ASSUME NEW x \in Exports, BeginNew(x) PROVE Ends(e)'
    <3>1. /\ pc = "free" /\ <<x, "write_new">> \in requests
          /\ UNCHANGED <<special, thr, owner, watch, notices, done, ended, dlg>>
      BY <2>5 DEF BeginNew, Handling, writers, dialogs
    <3>2. x <= special /\ \A t \in Threads : owner[t] # 0 => owner[t] < x
      BY <3>1 DEF InTurn, Owned
    <3>3. e = special => ~Going(e)
      BY <1>3, <3>2 DEF Going, Exports
    <3> QED BY <1>1, <3>1, <3>3 DEF Ends, Settled, Cancelled, Going
  <2>6. ASSUME NEW x \in Exports, BeginCurr(x) PROVE Ends(e)'
    BY <1>5, <2>6 DEF BeginCurr, JNIPause, Post, writers, dialogs
  <2> QED BY <1>13, <2>1, <2>2, <2>3, <2>4, <2>5, <2>6 DEF Handle
<1>14. ASSUME NEW t \in Threads, Thread(t) \/ LastEvent(t) PROVE Ends(e)'
  <2>1. UNCHANGED <<special, watch, notices, done, dlg>>
    BY <1>14, ThreadQuiet DEF dialogs
  <2>2. \A u \in Threads \ {t} : thr'[u] = thr[u] /\ owner'[u] = owner[u]
    BY <1>14, ThreadLeaves
  <2>3. CASE Started(t)
    <3>1. /\ {thr[t], thr'[t]} \subseteq {"start", "entry", "play"} /\ owner' = owner
          /\ droid_rc' \in {droid_rc, "none"} /\ ended' = ended
      BY <2>3 DEF Started, Goto, TypeOK
    <3>2. Going(e)' <=> Going(e)
      BY <2>2, <3>1 DEF Going
    <3> QED BY <1>1, <2>1, <3>1, <3>2 DEF Ends, Settled, Cancelled
  <2>4. CASE Poll(t)
    <3>1. /\ droid_rc' = "none" /\ UNCHANGED <<owner, ended>> /\ thr[t] = "play"
          /\ droid_rc = "stop" \/ thr'[t] = "play"
      BY <2>4 DEF Poll, Goto, TypeOK
    <3>2. droid_rc # "stop" => (Going(e)' <=> Going(e))
      BY <2>2, <3>1 DEF Going
    <3>3. e = special /\ watch[e] # "none" /\ ~Going(e)' => Settled(e)
      BY <1>1, <3>2 DEF Ends, Settled
    <3> QED BY <1>1, <2>1, <3>1, <3>3 DEF Ends, Settled, Cancelled
  <2>5. CASE LastEvent(t)
    <3>1. /\ thr[t] = "play" /\ UNCHANGED <<owner, droid_rc>>
          /\ ended' = IF Writing /\ owner[t] = current THEN ended \cup {current} ELSE ended
          /\ When("unread", droid_rc # "none") \subseteq mishaps'
      BY <2>5, RecordKeeps DEF LastEvent
    <3>2. droid_rc = "none"
      BY <1>1, <3>1 DEF When, Without
    <3>3. owner[t] = e => e \in ended'
      BY <1>2, <1>3, <3>1
    <3>4. ended \subseteq ended'
      BY <3>1
    <3>5. owner[t] # e => (Going(e)' <=> Going(e))
      BY <2>2, <3>1 DEF Going
    <3> QED BY <1>1, <2>1, <3>1, <3>2, <3>3, <3>4, <3>5 DEF Ends, Settled, Cancelled
  <2>6. CASE SongOver(t) \/ Leave(t) \/ Finish(t) \/ Header(t)
    <3>1. /\ {thr[t], thr'[t]} \cap {"start", "entry", "play"} = {}
          /\ UNCHANGED <<droid_rc, ended>>
      BY <2>6 DEF SongOver, Leave, Finish, Header, Goto, Die, TypeOK
    <3>2. Going(e)' <=> Going(e)
      BY <2>2, <3>1 DEF Going
    <3> QED BY <1>1, <2>1, <3>1, <3>2 DEF Ends, Settled, Cancelled
  <2> QED BY <1>14, <2>3, <2>4, <2>5, <2>6 DEF Thread
<1>15. CASE UNCHANGED vars
  BY <1>5, <1>15 DEF vars, player, writers, dialogs
<1> QED BY <1>6, <1>7, <1>8, <1>9, <1>10, <1>11, <1>12, <1>13, <1>14, <1>15 DEF Next

\* An export that is reported as written was written up to the last event of its
\* song, for any number of exports and any threads, unless a song was refused or
\* overlapped another, a stop was not its own or not read, or its end was told too
\* early or to another saver.
THEOREM WhatIsReportedEnded == Spec => []WroteMeansEnded
<1>1. Init => Toggled /\ Single /\ InTurn /\ Owned /\ Heeded /\ Written /\ Ending
  BY DEF Init, Toggled, Single, Alive, InTurn, Owned, Heeded, Written, Ending, Going
<1>2. Ending => WroteMeansEnded
  BY DEF Ending, WroteMeansEnded, Without, Excuses
<1>3. TypedInv => TypeOK
  BY DEF TypedInv
<1> QED BY <1>1, <1>2, <1>3, InitTyped, NextTyped, NextToggled, NextSingle, NextInTurn,
           NextOwned, NextHeeded, NextWritten, NextEnding, PTL DEF Spec

============================================================================
