-------------------------- MODULE SongConfigProofs --------------------------
(***************************************************************************)
(* Proofs about module SongConfig, for any channels, values and buttons    *)
(* and any number of voices and of the listener's actions: the types, that *)
(* a song never changes what is locked, that both sides agree on it, that  *)
(* the speed and the key shown are those that are played, and that a       *)
(* configuration that is saved and loaded again brings back what was heard.*)
(***************************************************************************)
EXTENDS SongConfig, TLAPS

----------------------------------------------------------------------------
(* Types                                                                   *)

\* The initial state has the types of the variables.
LEMMA InitTypeOK == Init => TypeOK
<1> SUFFICES ASSUME Init PROVE TypeOK
  OBVIOUS
<1>1. /\ cust \in [Settings -> BOOLEAN] /\ forced \in [Settings -> BOOLEAN]
      /\ shown \in [Settings -> Values] /\ value \in [Settings -> Values]
  BY DefaultAssumption DEF Init
<1>2. maxvoice \in 0..MaxVoices /\ voices \in 0..MaxVoices /\ calls \in 0..MaxCalls
  BY VoicesAssumption, CallsAssumption DEF Init
<1>3. slot \in Slots /\ taken \in Slots
  BY DEF Init, Empty, Slots, Commands
<1>4. pending \in [on : SUBSET Settings, to : Values]
  BY DefaultAssumption DEF Init, NoSetting
<1>5. die \in BOOLEAN /\ paused \in BOOLEAN /\ restored \in BOOLEAN
  BY DEF Init
<1> QED BY <1>1, <1>2, <1>3, <1>4, <1>5 DEF Init, TypeOK, MainCode

\* The history only ever holds kinds of mishaps.
LEMMA RecordTyped ==
    ASSUME mishaps \in SUBSET Mishaps, NEW kinds \in SUBSET Mishaps, Record(kinds)
    PROVE  mishaps' \in SUBSET Mishaps
BY DEF Record

LEMMA WhenTyped ==
    ASSUME NEW kind \in Mishaps, NEW condition
    PROVE  When(kind, condition) \in SUBSET Mishaps
BY DEF When

LEMMA LockMishapsTyped ==
    ASSUME NEW lock PROVE LockMishaps(lock) \in SUBSET Mishaps
<1>1. /\ When("early", thr \in {"start", "load"} /\ die /\ lock # {}) \in SUBSET Mishaps
      /\ When("kept", thr = "none" /\ ~die /\ lock # {}) \in SUBSET Mishaps
      /\ When("torn", pending.on \cap lock # {}) \in SUBSET Mishaps
  BY DEF When, Mishaps
<1> QED BY <1>1 DEF LockMishaps

\* A command in the slot.
LEMMA SendTyped ==
    ASSUME NEW cmd \in Commands, NEW n \in Int, Send(cmd, n)
    PROVE  slot' \in Slots
BY DEF Send, Slots

LEMMA WaitThenTyped ==
    ASSUME NEW c \in MainCode, WaitThen(c)
    PROVE  pc' \in MainCode /\ then' \in MainCode
BY DEF WaitThen, MainCode

LEMMA SendDifferenceTyped ==
    ASSUME NEW cmd \in Commands, NEW n \in Int, NEW next \in MainCode,
           slot \in Slots, then \in MainCode, SendDifference(cmd, n, next)
    PROVE  slot' \in Slots /\ pc' \in MainCode /\ then' \in MainCode
<1>1. CASE n = 0
  BY <1>1 DEF SendDifference
<1>2. CASE n # 0
  BY <1>2, SendTyped, WaitThenTyped DEF SendDifference
<1> QED BY <1>1, <1>2

\* Locking and unlocking.
LEMMA LockedTyped ==
    ASSUME NEW all, NEW lock, NEW to \in [Settings -> Values],
           cust \in [Settings -> BOOLEAN], forced \in [Settings -> BOOLEAN],
           shown \in [Settings -> Values], value \in [Settings -> Values],
           Locked(all, lock, to)
    PROVE  /\ cust' \in [Settings -> BOOLEAN] /\ forced' \in [Settings -> BOOLEAN]
           /\ shown' \in [Settings -> Values] /\ value' \in [Settings -> Values]
<1>1. forced' \in [Settings -> BOOLEAN]
  <2>1. ASSUME NEW s \in Settings
        PROVE  (IF s \in all THEN s \in lock ELSE forced[s]) \in BOOLEAN
    <3>1. CASE s \in all
      <4>1. (s \in lock) \in BOOLEAN
        OBVIOUS
      <4> QED BY <3>1, <4>1, Zenon
    <3>2. CASE s \notin all
      BY <3>2, Zenon
    <3> QED BY <3>1, <3>2
  <2> QED BY <2>1, Zenon DEF Locked
<1>2. cust' \in [Settings -> BOOLEAN]
  <2>1. ASSUME NEW s \in Settings
        PROVE  (IF s \in all THEN s \in lock ELSE cust[s]) \in BOOLEAN
    <3>1. CASE s \in all
      <4>1. (s \in lock) \in BOOLEAN
        OBVIOUS
      <4> QED BY <3>1, <4>1, Zenon
    <3>2. CASE s \notin all
      BY <3>2, Zenon
    <3> QED BY <3>1, <3>2
  <2> QED BY <2>1, Zenon DEF Locked
<1>3. shown' \in [Settings -> Values] /\ value' \in [Settings -> Values]
  BY DEF Locked
<1> QED BY <1>1, <1>2, <1>3

\* What a file holds.
LEMMA FileTyped ==
    ASSUME file \in SUBSET Files, NEW f \in file
    PROVE  /\ f.cust \in [Settings -> BOOLEAN] /\ f.shown \in [Settings -> Values]
           /\ f.tempoCount \in Int /\ f.keyOffset \in Int /\ f.maxvoice \in Int
<1>1. f \in Files
  OBVIOUS
<1> QED BY <1>1 DEF Files

\* A toggle leaves TiMidity's flag a flag.
LEMMA DroppedTyped ==
    ASSUME paused \in BOOLEAN, mishaps \in SUBSET Mishaps, Dropped
    PROVE  slot' \in Slots /\ paused' \in BOOLEAN /\ mishaps' \in SUBSET Mishaps
<1>1. slot' \in Slots
  BY DEF Dropped, Empty, Slots, Commands
<1>2. paused' \in BOOLEAN
  BY Zenon DEF Dropped
<1>3. mishaps' \in SUBSET Mishaps
  BY RecordTyped, WhenTyped DEF Dropped, Mishaps
<1> QED BY <1>1, <1>2, <1>3

LEMMA LeaveTyped ==
    ASSUME mishaps \in SUBSET Mishaps, Leave
    PROVE  thr' = "none" /\ state' = "IDLE" /\ mishaps' \in SUBSET Mishaps
BY RecordTyped, WhenTyped DEF Leave, Mishaps

\* Every step of the main thread and of the play thread keeps the types.
LEMMA ListenerTyped == TypeOK /\ Listener => TypeOK'
<1> SUFFICES ASSUME TypeOK, Listener PROVE TypeOK'
  OBVIOUS
<1> USE DEF TypeOK
<1>1. CASE Play
  <2>1. /\ cust' \in [Settings -> BOOLEAN] /\ shown' \in [Settings -> Values]
    BY <1>1, DefaultAssumption DEF Play
  <2>2. calls' \in 0..MaxCalls
    BY <1>1, CallsAssumption DEF Play, Call
  <2>3. /\ state' = "PLAYING" /\ thr' = "start" /\ restored' = FALSE
        /\ tempoCount' = 0 /\ keyOffset' = 0
        /\ UNCHANGED <<maxvoice, channels, params, die, paused, slot, taken, pc, then,
                       config, mishaps>>
    BY <1>1 DEF Play, Call
  <2>4. restored' \in BOOLEAN /\ die' \in BOOLEAN /\ paused' \in BOOLEAN
    BY <2>3, Zenon
  <2>5. /\ UNCHANGED <<forced, value, pending, speed, key, voices, file, heard>>
        /\ UNCHANGED <<maxvoice, slot, taken, pc, then, mishaps>>
    BY <2>3 DEF channels, params, config
  <2>6. tempoCount' \in Int /\ keyOffset' \in Int
    BY <2>3
  <2> QED BY <2>1, <2>2, <2>3, <2>4, <2>5, <2>6
<1>2. CASE Stop
  <2>1. calls' \in 0..MaxCalls /\ slot' \in Slots
    BY <1>2, CallsAssumption, SendTyped DEF Stop, Call, Commands
  <2> QED BY <1>2, <2>1 DEF Stop, Call, java, channels, params, config, NativeUnchanged
<1>3. CASE Pause
  <2>1. calls' \in 0..MaxCalls
    BY <1>3, CallsAssumption DEF Pause, Call
  <2>2. slot' \in Slots /\ state' \in {"IDLE", "PLAYING", "PAUSED", "REQSTOP"}
    BY <1>3, SendTyped DEF Pause, JNIPause, Commands
  <2> QED BY <1>3, <2>1, <2>2 DEF Pause, Call, java, channels, params, config, NativeUnchanged
<1>4. CASE Save
  <2>1. calls' \in 0..MaxCalls
    BY <1>4, CallsAssumption DEF Save, Call
  <2>2. /\ slot' \in Slots /\ state' \in {"IDLE", "PLAYING", "PAUSED", "REQSTOP"}
        /\ pc' \in MainCode /\ then' \in MainCode
    <3>1. CASE state = "PAUSED"
      BY <1>4, <3>1 DEF Save, MainCode
    <3>2. CASE state # "PAUSED"
      <4>1. JNIPause /\ WaitThen("saveWrite")
        BY <1>4, <3>2 DEF Save
      <4>2. slot' \in Slots /\ state' \in {"IDLE", "PLAYING", "PAUSED", "REQSTOP"}
        BY <4>1, SendTyped DEF JNIPause, Commands
      <4>3. pc' \in MainCode /\ then' \in MainCode
        BY <4>1, WaitThenTyped DEF MainCode
      <4> QED BY <4>2, <4>3
    <3> QED BY <3>1, <3>2
  <2> QED BY <1>4, <2>1, <2>2 DEF Save, Call, java, channels, params, config, NativeUnchanged
<1>5. CASE Load
  <2>1. calls' \in 0..MaxCalls
    BY <1>5, CallsAssumption DEF Load, Call
  <2>2. /\ slot' \in Slots /\ state' \in {"IDLE", "PLAYING", "PAUSED", "REQSTOP"}
        /\ pc' \in MainCode /\ then' \in MainCode
    <3>1. CASE state # "PAUSED"
      BY <1>5, <3>1 DEF Load, MainCode
    <3>2. CASE state = "PAUSED"
      <4>1. JNIPause /\ WaitThen("loadLocks")
        BY <1>5, <3>2 DEF Load
      <4>2. slot' \in Slots /\ state' \in {"IDLE", "PLAYING", "PAUSED", "REQSTOP"}
        BY <4>1, SendTyped DEF JNIPause, Commands
      <4>3. pc' \in MainCode /\ then' \in MainCode
        BY <4>1, WaitThenTyped DEF MainCode
      <4> QED BY <4>2, <4>3
    <3> QED BY <3>1, <3>2
  <2> QED BY <1>5, <2>1, <2>2 DEF Load, Call, java, channels, params, config, NativeUnchanged
<1>6. CASE \E b \in Buttons : Button(b[1], b[2])
  <2>1. PICK b \in Buttons : Button(b[1], b[2])
    BY <1>6
  <2>2. b[1] \in Commands /\ b[2] \in Int
    BY ButtonsAssumption DEF Commands
  <2>3. calls' \in 0..MaxCalls
    BY <2>1, CallsAssumption DEF Button, Call
  <2>4. slot' \in Slots
    BY <2>1, <2>2, SendTyped DEF Button
  <2>5. pc' \in MainCode /\ then' \in MainCode
    BY <2>1 DEF Button, WaitThen, MainCode
  <2> QED BY <2>1, <2>3, <2>4, <2>5 DEF Button, Call, java, channels, params, config, NativeUnchanged
<1>7. ASSUME NEW s \in Settings, NEW on, NEW v \in Values, Dialog(s, on, v)
      PROVE  TypeOK'
  <2>1. calls' \in 0..MaxCalls
    BY <1>7, CallsAssumption DEF Dialog, Call
  <2>2. PICK lock : Locked({s}, lock, [r \in Settings |-> v]) /\ Record(LockMishaps(lock))
    BY <1>7 DEF Dialog
  <2>3. [r \in Settings |-> v] \in [Settings -> Values]
    OBVIOUS
  <2>4. /\ cust' \in [Settings -> BOOLEAN] /\ forced' \in [Settings -> BOOLEAN]
        /\ shown' \in [Settings -> Values] /\ value' \in [Settings -> Values]
    BY <2>2, <2>3, LockedTyped
  <2>5. mishaps' \in SUBSET Mishaps
    BY <2>2, LockMishapsTyped, RecordTyped
  <2>6. slot' \in Slots /\ pc' \in MainCode /\ then' \in MainCode
    BY <1>7, SendTyped, WaitThenTyped DEF Dialog, Commands, MainCode
  <2> QED BY <1>7, <2>1, <2>4, <2>5, <2>6 DEF Dialog, Call, params, config
<1> QED BY <1>1, <1>2, <1>3, <1>4, <1>5, <1>6, <1>7, DefaultAssumption DEF Listener

LEMMA HandleTyped == TypeOK /\ Handle => TypeOK'
<1> SUFFICES ASSUME TypeOK, Handle PROVE TypeOK'
  OBVIOUS
<1> USE DEF TypeOK
<1>1. CASE Waited
  BY <1>1 DEF Waited, java, channels, params, config, MainCode
<1>2. CASE Counted
  BY <1>2 DEF Counted, channels, params, config, MainCode, NativeUnchanged
<1>3. CASE SaveWrite
  <2>1. file' \in SUBSET Files
    <3>1. [cust |-> cust, shown |-> shown, tempoCount |-> tempoCount,
           keyOffset |-> keyOffset, maxvoice |-> maxvoice] \in Files
      BY VoicesAssumption DEF Files
    <3> QED BY <1>3, <3>1 DEF SaveWrite
  <2>2. heard' \in SUBSET Sounds
    <3>1. [forced |-> forced, value |-> value, speed |-> speed, key |-> key] \in Sounds
      BY DEF Sounds
    <3> QED BY <1>3, <3>1 DEF SaveWrite
  <2>3. mishaps' \in SUBSET Mishaps
    BY <1>3, RecordTyped, WhenTyped DEF SaveWrite, Mishaps
  <2>4. /\ slot' \in Slots /\ state' \in {"IDLE", "PLAYING", "PAUSED", "REQSTOP"}
        /\ pc' \in MainCode /\ then' \in MainCode
    <3>1. CASE pc = "saveWrite" /\ isActive
      <4>1. JNIPause /\ WaitThen("free")
        BY <1>3, <3>1 DEF SaveWrite
      <4>2. slot' \in Slots /\ state' \in {"IDLE", "PLAYING", "PAUSED", "REQSTOP"}
        BY <4>1, SendTyped DEF JNIPause, Commands
      <4>3. pc' \in MainCode /\ then' \in MainCode
        BY <4>1, WaitThenTyped DEF MainCode
      <4> QED BY <4>2, <4>3
    <3>2. CASE ~(pc = "saveWrite" /\ isActive)
      BY <1>3, <3>2 DEF SaveWrite, MainCode
    <3> QED BY <3>1, <3>2
  <2> QED BY <1>3, <2>1, <2>2, <2>3, <2>4
        DEF SaveWrite, java, channels, params, NativeUnchanged
<1>4. CASE LoadLocks
  <2>1. PICK f \in file :
           /\ Locked(Settings, {s \in Settings : f.cust[s]}, f.shown)
           /\ Record(LockMishaps({s \in Settings : f.cust[s]}))
           /\ SendDifference("speed", f.tempoCount - tempoCount, "loadTempo")
    BY <1>4 DEF LoadLocks
  <2>2. f.shown \in [Settings -> Values] /\ f.tempoCount - tempoCount \in Int
    BY FileTyped
  <2>3. /\ cust' \in [Settings -> BOOLEAN] /\ forced' \in [Settings -> BOOLEAN]
        /\ shown' \in [Settings -> Values] /\ value' \in [Settings -> Values]
    BY <2>1, <2>2, LockedTyped
  <2>4. mishaps' \in SUBSET Mishaps
    BY <2>1, LockMishapsTyped, RecordTyped
  <2>5. slot' \in Slots /\ pc' \in MainCode /\ then' \in MainCode
    BY <2>1, <2>2, SendDifferenceTyped DEF Commands, MainCode
  <2> QED BY <1>4, <2>3, <2>4, <2>5 DEF LoadLocks, params, config
<1>5. CASE LoadTempo
  <2>1. PICK f \in file :
           /\ tempoCount' = f.tempoCount
           /\ SendDifference("key", f.keyOffset - keyOffset, "loadKey")
    BY <1>5 DEF LoadTempo
  <2>2. f.tempoCount \in Int /\ f.keyOffset - keyOffset \in Int
    BY FileTyped
  <2>3. slot' \in Slots /\ pc' \in MainCode /\ then' \in MainCode
    BY <2>1, <2>2, SendDifferenceTyped DEF Commands, MainCode
  <2>4. mishaps' \in SUBSET Mishaps
    BY <1>5, RecordTyped, WhenTyped DEF LoadTempo, Mishaps
  <2> QED BY <1>5, <2>1, <2>2, <2>3, <2>4
        DEF LoadTempo, channels, params, config, NativeUnchanged
<1>6. CASE LoadKey
  <2>1. PICK f \in file :
           /\ keyOffset' = f.keyOffset
           /\ SendDifference("voices", f.maxvoice - maxvoice, "loadEnd")
    BY <1>6 DEF LoadKey
  <2>2. f.keyOffset \in Int /\ f.maxvoice - maxvoice \in Int
    BY FileTyped, VoicesAssumption
  <2>3. slot' \in Slots /\ pc' \in MainCode /\ then' \in MainCode
    BY <2>1, <2>2, SendDifferenceTyped DEF Commands, MainCode
  <2>4. mishaps' \in SUBSET Mishaps
    BY <1>6, RecordTyped, WhenTyped DEF LoadKey, Mishaps
  <2> QED BY <1>6, <2>1, <2>2, <2>3, <2>4
        DEF LoadKey, channels, params, config, NativeUnchanged
<1>7. CASE LoadEnd
  <2>1. slot' \in Slots /\ pc' \in MainCode /\ then' \in MainCode
    BY <1>7, SendTyped, WaitThenTyped DEF LoadEnd, Commands, MainCode
  <2> QED BY <1>7, <2>1 DEF LoadEnd, java, channels, params, config, NativeUnchanged
<1> QED BY <1>1, <1>2, <1>3, <1>4, <1>5, <1>6, <1>7 DEF Handle

\* RC_VOICEINCR and RC_VOICEDECR stay within what there is.
LEMMA BoundedTyped == \A n \in Int : Bounded(n) \in 0..MaxVoices
BY VoicesAssumption DEF Bounded

LEMMA ThreadTyped == TypeOK /\ Thread => TypeOK'
<1> SUFFICES ASSUME TypeOK, Thread PROVE TypeOK'
  OBVIOUS
<1> USE DEF TypeOK, MainUnchanged, main, config
<1>1. CASE Start
  <2>1. slot' \in Slots /\ paused' \in BOOLEAN /\ mishaps' \in SUBSET Mishaps
    BY <1>1, DroppedTyped DEF Start
  <2> QED BY <1>1, <2>1 DEF Start, channels
<1>2. CASE Poll
  <2>1. slot' \in Slots /\ paused' \in BOOLEAN /\ mishaps' \in SUBSET Mishaps
    BY <1>2, DroppedTyped, LeaveTyped DEF Poll, Empty, Slots, Commands
  <2>2. thr' \in {"none", "load", "drain"} /\ state' \in {"IDLE", "PLAYING", "PAUSED", "REQSTOP"}
    BY <1>2, LeaveTyped DEF Poll
  <2> QED BY <1>2, <2>1, <2>2 DEF Poll, java, channels, params
<1>3. CASE Prepare
  <2>1. forced' \in [Settings -> BOOLEAN]
    <3>1. ASSUME NEW s \in Settings PROVE (forced[s] /\ ~die) \in BOOLEAN
      BY Zenon
    <3> QED BY <1>3, <3>1, Zenon DEF Prepare
  <2>2. PICK p \in [Programs -> Values] :
           /\ value' = [s \in Settings |-> IF ~forced'[s] THEN Default
                                           ELSE IF s \in Programs THEN p[s] ELSE value[s]]
           /\ Record(When("scanned", \E s \in Programs : forced'[s] /\ p[s] # value[s]))
    BY <1>3 DEF Prepare
  <2>3. value' \in [Settings -> Values]
    BY <2>2, DefaultAssumption
  <2>4. mishaps' \in SUBSET Mishaps
    BY <2>2, RecordTyped, WhenTyped DEF Mishaps
  <2>5. /\ thr' = "play" /\ die' = FALSE /\ keyOffset' = key
        /\ UNCHANGED <<state, cust, shown, tempoCount, maxvoice, pending, params, paused,
                       slot, taken>>
        /\ UNCHANGED <<pc, then, restored, calls, file, heard>>
    BY <1>3 DEF Prepare
  <2>6. die' \in BOOLEAN /\ paused' \in BOOLEAN /\ restored' \in BOOLEAN
    BY <2>5, Zenon
  <2> QED BY <2>1, <2>3, <2>4, <2>5, <2>6 DEF params
<1>4. CASE EventWrite
  <2>1. /\ pending \in [on : SUBSET Settings, to : Values]
        /\ pending' = NoSetting
        /\ value' = [s \in Settings |-> IF s \in pending.on THEN pending.to ELSE value[s]]
        /\ shown' = [s \in Settings |-> IF s \in pending.on THEN pending.to ELSE shown[s]]
    BY <1>4 DEF EventWrite
  <2>2. value' \in [Settings -> Values] /\ shown' \in [Settings -> Values]
    BY <2>1
  <2>3. pending' \in [on : SUBSET Settings, to : Values]
    BY <2>1, DefaultAssumption DEF NoSetting
  <2> QED BY <1>4, <2>2, <2>3 DEF EventWrite, params
<1>5. CASE Take
  BY <1>5 DEF Take, Empty, Slots, Commands, java, channels, params
<1>6. CASE Tune
  <2>1. taken' \in Slots /\ taken.arg \in Int
    BY <1>6 DEF Tune, Empty, Slots, Commands
  <2>2. speed' \in Int /\ key' \in Int
    BY <1>6, <2>1 DEF Tune
  <2>3. voices' \in 0..MaxVoices /\ maxvoice' \in 0..MaxVoices
    <3>1. voices + taken.arg \in Int
      BY <2>1, VoicesAssumption
    <3>2. Bounded(voices + taken.arg) \in 0..MaxVoices
      BY <3>1, BoundedTyped
    <3> QED BY <1>6, <3>2 DEF Tune
  <2>4. value' \in [Settings -> Values] /\ keyOffset' \in Int
    <3>1. CASE taken.cmd = "jump" /\ paused
      BY <1>6, <3>1 DEF Tune
    <3>2. CASE ~(taken.cmd = "jump" /\ paused)
      <4>1. Restart
        BY <1>6, <3>2 DEF Tune
      <4>2. PICK p \in [Settings -> Values] :
               value' = [s \in Settings |-> IF forced[s] THEN value[s] ELSE p[s]]
        BY <4>1 DEF Restart
      <4>3. value' \in [Settings -> Values]
        BY <4>2
      <4> QED BY <2>2, <4>1, <4>3 DEF Restart
    <3> QED BY <3>1, <3>2
  <2> QED BY <1>6, <2>1, <2>2, <2>3, <2>4 DEF Tune
<1>7. CASE Toggle
  <2>1. paused' \in BOOLEAN
    BY <1>7, Zenon DEF Toggle
  <2> QED BY <1>7, <2>1 DEF Toggle, Empty, Slots, Commands, java, channels, params
<1>8. CASE Halt
  <2>1. die' \in BOOLEAN /\ paused' \in BOOLEAN
    BY <1>8, Zenon DEF Halt
  <2>2. taken' \in Slots
    BY <1>8 DEF Halt, Empty, Slots, Commands
  <2> QED BY <1>8, <2>1, <2>2 DEF Halt, java, channels, params
<1>9. CASE LastEvent
  BY <1>9 DEF LastEvent, java, channels, params
<1>10. CASE SongOver
  BY <1>10, LeaveTyped DEF SongOver, java, channels, params
<1>11. ASSUME NEW s \in Settings, Event(s) PROVE TypeOK'
  <2>1. pending' \in [on : SUBSET Settings, to : Values]
    BY <1>11 DEF Event
  <2> QED BY <1>11, <2>1 DEF Event, java, params
<1> QED BY <1>1, <1>2, <1>3, <1>4, <1>5, <1>6, <1>7, <1>8, <1>9, <1>10, <1>11 DEF Thread

LEMMA NextTyped == TypeOK /\ [Next]_vars => TypeOK'
<1>1. TypeOK /\ UNCHANGED vars => TypeOK'
  BY DEF TypeOK, vars, java, channels, params, main, config
<1> QED BY <1>1, ListenerTyped, HandleTyped, ThreadTyped DEF Next

\* Every variable has its type: the copies of a setting hold legal values and
\* the number of voices stays between none and max_voices.
THEOREM Typing == Spec => []TypeOK
BY InitTypeOK, NextTyped, PTL DEF Spec

----------------------------------------------------------------------------
(* A song never changes what is locked                                     *)

\* A setting that an event found unlocked is still unlocked when the event
\* writes it, unless the listener locked it in between.
TornInv == \A s \in pending.on : forced[s] => "torn" \in mishaps

\* What was recorded stays recorded.
LEMMA Recorded ==
    ASSUME NEW kinds, Record(kinds)
    PROVE  mishaps \subseteq mishaps' /\ kinds \subseteq mishaps'
BY DEF Record

\* Locking keeps TornInv, because it records when it comes in between.
LEMMA LockedTorn ==
    ASSUME TypeOK, TornInv, NEW all, NEW lock, NEW to, pending' = pending,
           Locked(all, lock, to), Record(LockMishaps(lock))
    PROVE  TornInv'
<1> SUFFICES ASSUME NEW s \in pending.on, forced'[s] PROVE "torn" \in mishaps'
  BY DEF TornInv
<1>1. s \in Settings
  BY DEF TypeOK
<1>2. CASE s \in lock
  <2>1. When("torn", pending.on \cap lock # {}) \subseteq mishaps'
    BY Recorded DEF LockMishaps
  <2> QED BY <1>2, <2>1 DEF When
<1>3. CASE s \notin lock
  <2>1. forced[s]
    BY <1>1, <1>3 DEF Locked
  <2> QED BY <2>1, Recorded DEF TornInv
<1> QED BY <1>2, <1>3

\* Every other step leaves the pending setting and the locks alone, or finds
\* the setting unlocked.
LEMMA NextTorn == TypeOK /\ TornInv /\ [Next]_vars => TornInv'
<1> SUFFICES ASSUME TypeOK, TornInv, [Next]_vars PROVE TornInv'
  OBVIOUS
<1>1. ASSUME UNCHANGED <<forced, pending>>, mishaps \subseteq mishaps' PROVE TornInv'
  BY <1>1 DEF TornInv
<1>2. CASE Listener
  <2>1. ASSUME NEW s \in Settings, NEW on, NEW v, Dialog(s, on, v) PROVE TornInv'
    BY <2>1, LockedTorn DEF Dialog
  <2>2. CASE Play \/ Stop \/ Pause \/ Save \/ Load
    BY <1>1, <2>2 DEF Play, Stop, Pause, Save, Load, NativeUnchanged, channels
  <2>3. CASE \E b \in Buttons : Button(b[1], b[2])
    BY <1>1, <2>3 DEF Button, NativeUnchanged, channels
  <2> QED BY <1>2, <2>1, <2>2, <2>3 DEF Listener
<1>3. CASE Handle
  <2>1. CASE LoadLocks
    BY <2>1, LockedTorn DEF LoadLocks
  <2>2. CASE Waited \/ Counted \/ LoadEnd
    BY <1>1, <2>2 DEF Waited, Counted, LoadEnd, NativeUnchanged, channels
  <2>3. CASE SaveWrite \/ LoadTempo \/ LoadKey
    BY <1>1, <2>3, Recorded DEF SaveWrite, LoadTempo, LoadKey, NativeUnchanged, channels
  <2> QED BY <1>3, <2>1, <2>2, <2>3 DEF Handle
<1>4. CASE Thread
  <2>1. CASE Start
    BY <1>1, <2>1, Recorded DEF Start, Dropped, channels
  <2>2. CASE Poll
    BY <1>1, <2>2, Recorded DEF Poll, Dropped, Leave, channels
  <2>3. CASE Prepare
    <3>1. \A s \in Settings : forced'[s] => forced[s]
      BY <2>3 DEF Prepare
    <3>2. pending' = pending /\ mishaps \subseteq mishaps'
      BY <2>3, Recorded DEF Prepare
    <3> QED BY <3>1, <3>2 DEF TornInv, TypeOK
  <2>4. CASE EventWrite
    BY <2>4 DEF EventWrite, NoSetting, TornInv
  <2>5. ASSUME NEW s \in Settings, Event(s) PROVE TornInv'
    BY <2>5 DEF Event, TornInv
  <2>6. CASE Take \/ Tune \/ Toggle \/ Halt \/ LastEvent
    BY <1>1, <2>6 DEF Take, Tune, Toggle, Halt, LastEvent, channels
  <2>7. CASE SongOver
    BY <1>1, <2>7, Recorded DEF SongOver, Leave, channels
  <2> QED BY <1>4, <2>1, <2>2, <2>3, <2>4, <2>5, <2>6, <2>7 DEF Thread
<1>5. CASE UNCHANGED vars
  BY <1>1, <1>5 DEF vars, channels
<1> QED BY <1>2, <1>3, <1>4, <1>5 DEF Next

LEMMA LockHoldsStep ==
    ASSUME TypeOK, TornInv, thr = "play", Thread, Without({"torn"})
    PROVE  /\ forced' = forced
           /\ \A s \in Settings : forced[s] => value'[s] = value[s]
<1>1. \A s \in pending.on : ~forced[s]
  BY DEF TornInv, Without
<1>2. CASE Start \/ Poll \/ Prepare \/ SongOver
  BY <1>2 DEF Start, Poll, Prepare, SongOver
<1>3. CASE EventWrite
  BY <1>1, <1>3 DEF EventWrite
<1>4. CASE Tune
  <2>1. forced' = forced
    BY <1>4 DEF Tune
  <2>2. CASE taken.cmd = "jump" /\ paused
    BY <1>4, <2>1, <2>2 DEF Tune
  <2>3. CASE ~(taken.cmd = "jump" /\ paused)
    BY <1>4, <2>1, <2>3 DEF Tune, Restart
  <2> QED BY <2>2, <2>3, <2>1
<1>5. CASE Take \/ Toggle \/ Halt \/ LastEvent
  BY <1>5 DEF Take, Toggle, Halt, LastEvent, channels
<1>6. ASSUME NEW s \in Settings, Event(s) PROVE UNCHANGED <<forced, value>>
  BY <1>6 DEF Event
<1> QED BY <1>2, <1>3, <1>4, <1>5, <1>6 DEF Thread

\* While a song plays, its events, its seeks and its changes of speed neither
\* change nor unlock what the listener locked: for any channels, and for any
\* sequence of locks, commands and files.
THEOREM LocksHold == Spec => LockHolds
<1>1. Init => TornInv
  BY DEF Init, NoSetting, TornInv
<1>2. /\ TypeOK /\ TornInv
      /\ [Next]_vars
      => [thr = "play" /\ Thread /\ Without({"torn"}) =>
             /\ forced' = forced
             /\ \A s \in Settings : forced[s] => value'[s] = value[s]]_vars
  BY LockHoldsStep
<1> QED BY <1>1, <1>2, InitTypeOK, NextTyped, NextTorn, PTL DEF Spec, LockHolds

----------------------------------------------------------------------------
(* Both sides agree on what is locked                                      *)

\* While a song plays the locks of the two sides are equal.  Before it does,
\* JNIHandler has none, and TiMidity will drop its own where RC_STOP ended the
\* song before, and has none where it did not.
PlayingAgree == thr \in {"play", "drain"} => \A s \in Settings : forced[s] <=> cust[s]
LoadingAgree ==
    thr \in {"start", "load"} =>
        \A s \in Settings : IF die THEN ~cust[s] ELSE forced[s] <=> cust[s]
IdleAgree == thr = "none" /\ ~die => \A s \in Settings : ~forced[s]
Agree == PlayingAgree /\ LoadingAgree /\ IdleAgree

AgreeInv == Without({"kept", "early"}) => Agree

\* Locking agrees: both sides are told the same, at a moment that is not
\* recorded as a mishap.
LEMMA LockedAgrees ==
    ASSUME TypeOK, Agree, NEW all, NEW lock, lock \subseteq all, NEW to,
           UNCHANGED <<thr, die>>,
           Locked(all, lock, to), Record(LockMishaps(lock)), Without({"kept", "early"})'
    PROVE  Agree'
<1>1. \A s \in Settings : /\ forced'[s] <=> IF s \in all THEN s \in lock ELSE forced[s]
                          /\ cust'[s] <=> IF s \in all THEN s \in lock ELSE cust[s]
  BY DEF Locked
<1>2. PlayingAgree'
  BY <1>1 DEF Agree, PlayingAgree
<1>3. LoadingAgree'
  <2>1. When("early", thr \in {"start", "load"} /\ die /\ lock # {}) \subseteq mishaps'
    BY Recorded DEF LockMishaps
  <2>2. thr \in {"start", "load"} /\ die => lock = {}
    BY <2>1 DEF When, Without
  <2>3. CASE thr \in {"start", "load"} /\ die
    BY <1>1, <2>2, <2>3 DEF Agree, LoadingAgree
  <2>4. CASE ~(thr \in {"start", "load"} /\ die)
    BY <1>1, <2>4 DEF Agree, LoadingAgree
  <2> QED BY <2>3, <2>4
<1>4. IdleAgree'
  <2>1. When("kept", thr = "none" /\ ~die /\ lock # {}) \subseteq mishaps'
    BY Recorded DEF LockMishaps
  <2>2. thr = "none" /\ ~die => lock = {}
    BY <2>1 DEF When, Without
  <2> QED BY <1>1, <2>2 DEF Agree, IdleAgree
<1> QED BY <1>2, <1>3, <1>4 DEF Agree

\* A song that is over without RC_STOP has left no lock that is not recorded.
LEMMA LeaveAgrees ==
    ASSUME Leave, UNCHANGED <<forced, die>>, Without({"kept", "early"})'
    PROVE  Agree'
<1>1. When("kept", ~die /\ \E s \in Settings : forced[s]) \subseteq mishaps'
  BY Recorded DEF Leave
<1>2. ~(~die /\ \E s \in Settings : forced[s])
  BY <1>1 DEF When, Without
<1>3. thr' = "none"
  BY DEF Leave
<1> QED BY <1>2, <1>3 DEF Agree, PlayingAgree, LoadingAgree, IdleAgree

LEMMA NextAgree == TypeOK /\ AgreeInv /\ [Next]_vars => AgreeInv'
<1> SUFFICES ASSUME TypeOK, AgreeInv, [Next]_vars, Without({"kept", "early"})' PROVE Agree'
  BY DEF AgreeInv
<1>1. ASSUME mishaps \subseteq mishaps' PROVE Agree
  BY <1>1 DEF AgreeInv, Without
<1>2. ASSUME UNCHANGED <<forced, cust, thr, die>>, mishaps \subseteq mishaps' PROVE Agree'
  BY <1>1, <1>2 DEF Agree, PlayingAgree, LoadingAgree, IdleAgree
<1>3. CASE Listener
  <2>1. CASE Play
    <3>1. Agree /\ thr = "none" /\ thr' = "start"
      BY <1>1, <2>1 DEF Play
    <3>2. \A s \in Settings : ~cust'[s]
      BY <2>1 DEF Play
    <3>3. UNCHANGED <<forced, die>>
      BY <2>1 DEF Play, channels
    <3> QED BY <3>1, <3>2, <3>3 DEF Agree, PlayingAgree, LoadingAgree, IdleAgree
  <2>2. CASE Stop \/ Pause \/ Save \/ Load
    BY <1>2, <2>2 DEF Stop, Pause, Save, Load, NativeUnchanged, channels, java
  <2>3. CASE \E b \in Buttons : Button(b[1], b[2])
    BY <1>2, <2>3 DEF Button, NativeUnchanged, channels, java
  <2>4. ASSUME NEW s \in Settings, NEW on, NEW v, Dialog(s, on, v) PROVE Agree'
    <3>1. /\ Locked({s}, When(s, on), [r \in Settings |-> v])
          /\ Record(LockMishaps(When(s, on)))
          /\ UNCHANGED <<thr, die>>
      BY <2>4 DEF Dialog
    <3>2. When(s, on) \subseteq {s}
      BY DEF When
    <3>3. Agree
      BY <1>1, <3>1, Recorded
    <3> QED BY <3>1, <3>2, <3>3, LockedAgrees
  <2> QED BY <1>3, <2>1, <2>2, <2>3, <2>4 DEF Listener
<1>4. CASE Handle
  <2>1. CASE LoadLocks
    <3>1. PICK lock, to : /\ lock \subseteq Settings
                          /\ Locked(Settings, lock, to) /\ Record(LockMishaps(lock))
      BY <2>1 DEF LoadLocks
    <3>2. UNCHANGED <<thr, die>>
      BY <2>1 DEF LoadLocks
    <3>3. Agree
      BY <1>1, <3>1, Recorded
    <3> QED BY <3>1, <3>2, <3>3, LockedAgrees
  <2>2. CASE Waited \/ Counted \/ LoadEnd
    BY <1>2, <2>2 DEF Waited, Counted, LoadEnd, NativeUnchanged, channels, java
  <2>3. CASE SaveWrite \/ LoadTempo \/ LoadKey
    BY <1>2, <2>3, Recorded DEF SaveWrite, LoadTempo, LoadKey, NativeUnchanged, channels, java
  <2> QED BY <1>4, <2>1, <2>2, <2>3 DEF Handle
<1>5. CASE Thread
  <2>1. CASE Start
    <3>1. Agree /\ thr = "start" /\ thr' = "load" /\ UNCHANGED <<forced, cust, die>>
      BY <1>1, <2>1, Recorded DEF Start, Dropped, channels
    <3> QED BY <3>1 DEF Agree, PlayingAgree, LoadingAgree, IdleAgree
  <2>2. CASE Poll
    <3>1. CASE slot.cmd = "stop"
      BY <2>2, <3>1, LeaveAgrees DEF Poll, channels
    <3>2. CASE slot.cmd # "stop"
      BY <1>2, <2>2, <3>2, Recorded DEF Poll, Dropped, channels, java
    <3> QED BY <3>1, <3>2
  <2>3. CASE Prepare
    <3>1. Agree /\ thr = "load" /\ thr' = "play" /\ cust' = cust
      BY <1>1, <2>3, Recorded DEF Prepare
    <3>2. \A s \in Settings : forced'[s] <=> forced[s] /\ ~die
      BY <2>3 DEF Prepare
    <3> QED BY <3>1, <3>2 DEF Agree, PlayingAgree, LoadingAgree, IdleAgree
  <2>4. CASE EventWrite \/ Take \/ Tune \/ Toggle
    BY <1>2, <2>4 DEF EventWrite, Take, Tune, Toggle, channels, java
  <2>5. ASSUME NEW s \in Settings, Event(s) PROVE Agree'
    BY <1>2, <2>5 DEF Event, java
  <2>6. CASE Halt
    <3>1. thr' = "none" /\ die' = TRUE
      BY <2>6 DEF Halt
    <3> QED BY <3>1 DEF Agree, PlayingAgree, LoadingAgree, IdleAgree
  <2>7. CASE LastEvent
    <3>1. Agree /\ thr = "play" /\ thr' = "drain" /\ UNCHANGED <<forced, cust, die>>
      BY <1>1, <2>7 DEF LastEvent, Playing, channels, java
    <3> QED BY <3>1 DEF Agree, PlayingAgree, LoadingAgree, IdleAgree
  <2>8. CASE SongOver
    BY <2>8, LeaveAgrees DEF SongOver, channels
  <2> QED BY <1>5, <2>1, <2>2, <2>3, <2>4, <2>5, <2>6, <2>7, <2>8 DEF Thread
<1>6. CASE UNCHANGED vars
  BY <1>2, <1>6 DEF vars, channels, java
<1> QED BY <1>3, <1>4, <1>5, <1>6 DEF Next

\* The check marks the listener sees are the locks TiMidity has, from song to
\* song, as long as no song ended without RC_STOP while something was locked
\* and nothing was locked before the song had begun.
THEOREM LocksAreAgreed == Spec => []LocksAgree
<1>1. Init => AgreeInv
  BY DEF Init, AgreeInv, Agree, PlayingAgree, LoadingAgree, IdleAgree
<1>2. TypeOK /\ AgreeInv => LocksAgree
  <2> SUFFICES ASSUME TypeOK, AgreeInv, thr = "play", Without({"kept", "early"})
               PROVE  forced = cust
    BY DEF LocksAgree, Quiet
  <2>1. \A s \in Settings : forced[s] <=> cust[s]
    BY DEF AgreeInv, Agree, PlayingAgree
  <2>2. forced \in [Settings -> BOOLEAN] /\ cust \in [Settings -> BOOLEAN]
    BY DEF TypeOK
  <2>3. ASSUME NEW s \in Settings PROVE forced[s] = cust[s]
    <3>1. forced[s] \in BOOLEAN /\ cust[s] \in BOOLEAN
      BY <2>2
    <3> QED BY <2>1, <3>1
  <2> QED BY <2>2, <2>3
<1> QED BY <1>1, <1>2, InitTypeOK, NextTyped, NextAgree, PTL DEF Spec

----------------------------------------------------------------------------
(* What is shown of speed and key is what is played                        *)

\* Where the main thread is, or will be when it has waited.
At == IF pc = "wait" THEN then ELSE pc

\* A command that counts is waited for; only a song that plays has taken one.
Underway ==
    /\ slot.cmd \in {"speed", "key", "voices"} => pc = "wait"
    /\ taken # Empty => thr = "play"
    /\ then # "wait"
    /\ \A f, g \in file : f = g

\* What the play thread will have when it has carried out all it was sent: a
\* song starts with neither speed nor key of the last.
Arg(place, cmd) == IF place.cmd = cmd THEN place.arg ELSE 0
Sent(cmd) == Arg(slot, cmd) + Arg(taken, cmd)
Begun(n) == IF thr = "start" THEN 0 ELSE n

\* The main thread counts the speed itself, after the command was taken.
SpeedCounted ==
    LET after == Begun(speed) + Sent("speed") IN
    /\ At = "faster" => after = tempoCount + 1
    /\ At = "slower" => after = tempoCount - 1
    /\ At = "loadTempo" => \A f \in file : after = f.tempoCount
    /\ At \notin {"faster", "slower", "loadTempo"} => after = tempoCount

\* The play thread reports the key; only load_cfg may be ahead of the report.
KeyCounted ==
    /\ \/ keyOffset = Begun(key)
       \/ taken.cmd = "key" /\ keyOffset = Begun(key) + taken.arg
    /\ At = "loadKey" => \A f \in file : f.keyOffset = Begun(key) + Sent("key")

Counting == thr # "none" => SpeedCounted /\ KeyCounted
CountInv == Underway /\ (Without({"dropped", "late"}) => Counting)

LEMMA InitCount == Init => CountInv
BY DEF Init, CountInv, Underway, Counting, Empty

\* A step that touches neither the counts nor the commands.
LEMMA CountFrame ==
    ASSUME CountInv, mishaps \subseteq mishaps',
           UNCHANGED <<tempoCount, keyOffset, thr, speed, key, slot, taken, pc, then, file>>
    PROVE  CountInv'
BY DEF CountInv, Underway, Counting, SpeedCounted, KeyCounted, At, Begun, Sent, Arg, Without

\* What the listener presses is sent to a free slot, with the main thread free.
LEMMA ListenerCount == TypeOK /\ CountInv /\ Listener => CountInv'
<1> SUFFICES ASSUME TypeOK, CountInv, Listener PROVE CountInv'
  OBVIOUS
<1> USE DEF CountInv, Underway, Counting, SpeedCounted, KeyCounted, At, Begun, Sent, Arg, Without
<1>1. CASE Play
  BY <1>1 DEF Play, Call, channels, params, config, Empty
<1>2. CASE Stop
  BY <1>2 DEF Stop, Call, Send, NativeUnchanged, java, params, config
<1>3. CASE Pause
  BY <1>3 DEF Pause, Call, JNIPause, Send, NativeUnchanged, java, params, config
<1>4. CASE Save
  BY <1>4 DEF Save, Call, JNIPause, Send, WaitThen, NativeUnchanged, java, params, config
<1>5. CASE Load
  BY <1>5 DEF Load, Call, JNIPause, Send, WaitThen, NativeUnchanged, java, params, config
<1>6. ASSUME NEW b \in Buttons, Button(b[1], b[2]) PROVE CountInv'
  <2>1. b[1] \in {"speed", "key", "voices"} /\ b[2] \in {1, -1}
    BY ButtonsAssumption
  <2>2. UNCHANGED <<tempoCount, keyOffset, thr, speed, key, taken, file, mishaps>>
    BY <1>6 DEF Button, NativeUnchanged, java, params, config
  <2>3. /\ pc = "free" /\ pc' = "wait"
        /\ slot' = [cmd |-> b[1], arg |-> b[2]]
        /\ then' = IF b[1] # "speed" THEN "free" ELSE IF b[2] > 0 THEN "faster" ELSE "slower"
    BY <1>6 DEF Button, Call, Send, WaitThen
  <2> HIDE DEF CountInv
  <2>4. slot.cmd \notin {"speed", "key", "voices"}
    BY <2>3 DEF CountInv
  <2> QED BY <2>1, <2>2, <2>3, <2>4 DEF CountInv, TypeOK, Slots
<1>7. ASSUME NEW s \in Settings, NEW on, NEW v, Dialog(s, on, v) PROVE CountInv'
  <2>1. /\ UNCHANGED <<tempoCount, keyOffset, thr, speed, key, taken, file>>
        /\ pc = "free" /\ mishaps \subseteq mishaps'
    BY <1>7, Recorded DEF Dialog, Call, params, config
  <2>2. \/ UNCHANGED <<slot, pc, then>>
        \/ slot' = [cmd |-> "jump", arg |-> 0] /\ pc' = "wait" /\ then' = "free"
    BY <1>7 DEF Dialog, Send, WaitThen
  <2> QED BY <2>1, <2>2
<1> QED BY <1>1, <1>2, <1>3, <1>4, <1>5, <1>6, <1>7 DEF Listener

\* The handlers count what was taken, and send what is left to send.
LEMMA HandleCount == TypeOK /\ CountInv /\ Handle => CountInv'
<1> SUFFICES ASSUME TypeOK, CountInv, Handle PROVE CountInv'
  OBVIOUS
<1>1. CASE Waited
  <2>1. At' = At /\ then' # "wait" /\ slot' = Empty
    BY <1>1 DEF Waited, At, CountInv, Underway
  <2>2. UNCHANGED <<tempoCount, keyOffset, thr, speed, key, slot, taken, file, mishaps>>
    BY <1>1 DEF Waited, java, params, config
  <2> QED BY <2>1, <2>2 DEF CountInv, Underway, Counting, SpeedCounted, KeyCounted, Begun,
             Sent, Arg, Without, Empty
<1>2. CASE Counted
  <2>1. UNCHANGED <<keyOffset, thr, speed, key, slot, taken, then, file, mishaps>>
    BY <1>2 DEF Counted, NativeUnchanged, params, config
  <2>2. pc \in {"faster", "slower"} /\ pc' = "free"
        /\ tempoCount' = tempoCount + (IF pc = "faster" THEN 1 ELSE -1)
    BY <1>2 DEF Counted
  <2> QED BY <2>1, <2>2 DEF CountInv, Underway, Counting, SpeedCounted, KeyCounted, At, Begun,
             Sent, Arg, Without, TypeOK
<1>3. CASE SaveWrite
  <2>1. UNCHANGED <<tempoCount, keyOffset, thr, speed, key, taken>> /\ mishaps \subseteq mishaps'
    BY <1>3, Recorded DEF SaveWrite, NativeUnchanged, java, params
  <2>2. /\ pc \in {"saveWrite", "savePaused"}
        /\ \A f, g \in file' : f = g
        /\ \/ pc' = "free" /\ UNCHANGED <<slot, then>>
           \/ pc' = "wait" /\ then' = "free" /\ slot' \in {slot, [cmd |-> "toggle", arg |-> 0]}
    BY <1>3 DEF SaveWrite, JNIPause, Send, WaitThen
  <2> QED BY <2>1, <2>2 DEF CountInv, Underway, Counting, SpeedCounted, KeyCounted, At, Begun,
             Sent, Arg, Without
<1>4. CASE LoadLocks
  <2>1. PICK f \in file : SendDifference("speed", f.tempoCount - tempoCount, "loadTempo")
    BY <1>4 DEF LoadLocks
  <2>2. UNCHANGED <<tempoCount, keyOffset, thr, speed, key, taken, file>>
        /\ pc = "loadLocks" /\ mishaps \subseteq mishaps'
    BY <1>4, Recorded DEF LoadLocks, params, config
  <2>3. f.tempoCount \in Int /\ tempoCount \in Int /\ speed \in Int /\ taken.arg \in Int
        /\ f.tempoCount - tempoCount \in Int
    BY DEF TypeOK, Files, Slots
  <2>4. \A g \in file : g = f
    BY DEF CountInv, Underway
  <2>5. slot.cmd \notin {"speed", "key", "voices"} /\ then # "wait"
    BY <2>2 DEF CountInv, Underway
  <2>6. /\ At' = "loadTempo" /\ then' # "wait"
        /\ \/ f.tempoCount - tempoCount = 0 /\ slot' = slot /\ pc' = "loadTempo"
           \/ slot' = [cmd |-> "speed", arg |-> f.tempoCount - tempoCount] /\ pc' = "wait"
    BY <2>1, <2>2, <2>5 DEF SendDifference, Send, WaitThen, At
  <2>7. Underway'
    BY <2>2, <2>5, <2>6 DEF CountInv, Underway
  <2>8. ASSUME Without({"dropped", "late"})', thr' # "none" PROVE SpeedCounted' /\ KeyCounted'
    <3>1. SpeedCounted /\ KeyCounted /\ At = "loadLocks"
      BY <2>2, <2>8 DEF CountInv, Counting, Without, At
    <3>2. SpeedCounted'
      <4>1. Begun(speed) + Arg(taken, "speed") = tempoCount /\ Arg(slot, "speed") = 0
        BY <3>1, <2>3, <2>5 DEF SpeedCounted, Sent, Arg, Begun
      <4>2. Begun(speed)' = Begun(speed) /\ Arg(taken, "speed")' = Arg(taken, "speed")
        BY <2>2 DEF Begun, Arg
      <4>3. Arg(slot, "speed")' = f.tempoCount - tempoCount
        BY <2>3, <2>5, <2>6 DEF Arg
      <4>4. Begun(speed) \in Int /\ Arg(taken, "speed") \in Int
        BY <2>3 DEF Begun, Arg
      <4>5. (Begun(speed) + Sent("speed"))' = f.tempoCount
        BY <4>1, <4>2, <4>3, <4>4, <2>3 DEF Sent
      <4> QED BY <4>5, <2>2, <2>4, <2>6 DEF SpeedCounted
    <3>3. KeyCounted'
      BY <3>1, <2>2, <2>6 DEF KeyCounted, Begun
    <3> QED BY <3>2, <3>3
  <2> QED BY <2>7, <2>8 DEF CountInv, Counting
<1>5. CASE LoadTempo
  <2>1. PICK f \in file : /\ tempoCount' = f.tempoCount
                          /\ SendDifference("key", f.keyOffset - keyOffset, "loadKey")
    BY <1>5 DEF LoadTempo
  <2>2. UNCHANGED <<keyOffset, thr, speed, key, taken, file>> /\ pc = "loadTempo"
        /\ When("late", taken.cmd = "key") \subseteq mishaps' /\ mishaps \subseteq mishaps'
    BY <1>5, Recorded DEF LoadTempo, NativeUnchanged, params, config
  <2>3. f.keyOffset \in Int /\ keyOffset \in Int /\ key \in Int /\ taken.arg \in Int
        /\ f.keyOffset - keyOffset \in Int
    BY DEF TypeOK, Files, Slots
  <2>4. \A g \in file : g = f
    BY DEF CountInv, Underway
  <2>5. slot.cmd \notin {"speed", "key", "voices"} /\ then # "wait"
    BY <2>2 DEF CountInv, Underway
  <2>6. /\ At' = "loadKey" /\ then' # "wait"
        /\ \/ f.keyOffset - keyOffset = 0 /\ slot' = slot /\ pc' = "loadKey"
           \/ slot' = [cmd |-> "key", arg |-> f.keyOffset - keyOffset] /\ pc' = "wait"
    BY <2>1, <2>2, <2>5 DEF SendDifference, Send, WaitThen, At
  <2>7. Underway'
    BY <2>2, <2>5, <2>6 DEF CountInv, Underway
  <2>8. ASSUME Without({"dropped", "late"})', thr' # "none" PROVE SpeedCounted' /\ KeyCounted'
    <3>1. SpeedCounted /\ KeyCounted /\ At = "loadTempo"
      BY <2>2, <2>8 DEF CountInv, Counting, Without, At
    <3>2. taken.cmd # "key"
      BY <2>2, <2>8 DEF When, Without
    <3>3. SpeedCounted'
      BY <3>1, <2>1, <2>2, <2>3, <2>5, <2>6 DEF SpeedCounted, Begun, Sent, Arg
    <3>4. KeyCounted'
      BY <3>1, <3>2, <2>2, <2>3, <2>4, <2>5, <2>6 DEF KeyCounted, Begun, Sent, Arg
    <3> QED BY <3>3, <3>4
  <2> QED BY <2>7, <2>8 DEF CountInv, Counting
<1>6. CASE LoadKey
  <2>1. PICK f \in file : /\ keyOffset' = f.keyOffset
                          /\ SendDifference("voices", f.maxvoice - maxvoice, "loadEnd")
    BY <1>6 DEF LoadKey
  <2>2. UNCHANGED <<tempoCount, thr, speed, key, taken, file>>
        /\ pc = "loadKey" /\ mishaps \subseteq mishaps'
    BY <1>6, Recorded DEF LoadKey, NativeUnchanged, params, config
  <2>3. f.keyOffset \in Int /\ key \in Int /\ taken.arg \in Int
        /\ f.maxvoice - maxvoice \in Int
    BY VoicesAssumption DEF TypeOK, Files, Slots
  <2>5. slot.cmd \notin {"speed", "key", "voices"} /\ then # "wait"
    BY <2>2 DEF CountInv, Underway
  <2>6. /\ At' = "loadEnd" /\ then' # "wait"
        /\ \/ slot' = slot /\ pc' = "loadEnd"
           \/ slot'.cmd = "voices" /\ pc' = "wait"
    BY <2>1, <2>2, <2>5 DEF SendDifference, Send, WaitThen, At
  <2>7. Underway'
    BY <2>2, <2>5, <2>6 DEF CountInv, Underway
  <2>8. ASSUME Without({"dropped", "late"})', thr' # "none" PROVE SpeedCounted' /\ KeyCounted'
    <3>1. SpeedCounted /\ KeyCounted /\ At = "loadKey"
      BY <2>2, <2>8 DEF CountInv, Counting, Without, At
    <3> QED BY <3>1, <2>1, <2>2, <2>3, <2>5, <2>6 DEF SpeedCounted, KeyCounted, Begun, Sent, Arg
  <2> QED BY <2>7, <2>8 DEF CountInv, Counting
<1>7. CASE LoadEnd
  <2>1. UNCHANGED <<tempoCount, keyOffset, thr, speed, key, taken, file, mishaps>>
    BY <1>7 DEF LoadEnd, NativeUnchanged, java, params, config
  <2>2. /\ pc = "loadEnd"
        /\ \/ pc' = "free" /\ UNCHANGED <<slot, then>>
           \/ pc' = "wait" /\ then' = "free" /\ slot' = [cmd |-> "jump", arg |-> 0]
    BY <1>7 DEF LoadEnd, Send, WaitThen
  <2> QED BY <2>1, <2>2 DEF CountInv, Underway, Counting, SpeedCounted, KeyCounted, At, Begun,
             Sent, Arg, Without
<1> QED BY <1>1, <1>2, <1>3, <1>4, <1>5, <1>6, <1>7 DEF Handle

\* The play thread takes, carries out and reports.
LEMMA ThreadCount == TypeOK /\ CountInv /\ Thread => CountInv'
<1> SUFFICES ASSUME TypeOK, CountInv, Thread PROVE CountInv'
  OBVIOUS
<1> USE DEF MainUnchanged, main, config
<1>1. CASE Start
  <2>1. /\ thr = "start" /\ thr' = "load" /\ key' = 0 /\ speed' = 0 /\ keyOffset' = 0
        /\ slot' = Empty /\ UNCHANGED <<tempoCount, taken, pc, then, file>>
        /\ When("dropped", slot.cmd \in {"speed", "key", "voices"}) \subseteq mishaps'
        /\ mishaps \subseteq mishaps'
    BY <1>1, Recorded DEF Start, Dropped
  <2>2. taken = Empty
    BY <2>1 DEF CountInv, Underway
  <2>3. Underway'
    BY <2>1, <2>2 DEF CountInv, Underway, Empty
  <2>4. ASSUME Without({"dropped", "late"})' PROVE SpeedCounted' /\ KeyCounted'
    <3>1. SpeedCounted /\ KeyCounted
      BY <2>1, <2>4 DEF CountInv, Counting, Without
    <3>2. slot.cmd \notin {"speed", "key", "voices"}
      BY <2>1, <2>4 DEF When, Without
    <3> QED BY <3>1, <3>2, <2>1, <2>2 DEF SpeedCounted, KeyCounted, At, Begun, Sent, Arg, Empty
  <2> QED BY <2>3, <2>4 DEF CountInv, Counting
<1>2. CASE Poll
  <2>1. /\ thr \in {"load", "drain"} /\ thr' \in {thr, "none"} /\ slot' = Empty
        /\ UNCHANGED <<tempoCount, keyOffset, speed, key, taken, pc, then, file>>
        /\ mishaps \subseteq mishaps'
    BY <1>2, Recorded DEF Poll, Dropped, Leave, java, params
  <2>2. thr' # "none" =>
            When("dropped", slot.cmd \in {"speed", "key", "voices"}) \subseteq mishaps'
    BY <1>2, Recorded DEF Poll, Dropped, Leave
  <2>3. taken = Empty
    BY <2>1 DEF CountInv, Underway
  <2>4. Underway'
    BY <2>1, <2>3 DEF CountInv, Underway, Empty
  <2>5. ASSUME Without({"dropped", "late"})', thr' # "none" PROVE SpeedCounted' /\ KeyCounted'
    <3>1. SpeedCounted /\ KeyCounted
      BY <2>1, <2>5 DEF CountInv, Counting, Without
    <3>2. slot.cmd \notin {"speed", "key", "voices"}
      BY <2>2, <2>5 DEF When, Without
    <3> QED BY <3>1, <3>2, <2>1, <2>3, <2>5 DEF SpeedCounted, KeyCounted, At, Begun, Sent, Arg, Empty
  <2> QED BY <2>4, <2>5 DEF CountInv, Counting
<1>3. CASE Prepare
  <2>1. /\ thr = "load" /\ thr' = "play" /\ keyOffset' = key
        /\ UNCHANGED <<tempoCount, speed, key, slot, taken, pc, then, file>>
        /\ mishaps \subseteq mishaps'
    BY <1>3, Recorded DEF Prepare, params
  <2>2. taken = Empty
    BY <2>1 DEF CountInv, Underway
  <2> QED BY <2>1, <2>2 DEF CountInv, Underway, Counting, SpeedCounted, KeyCounted, At, Begun,
             Sent, Arg, Without
<1>4. CASE EventWrite \/ Toggle \/ LastEvent \/ Halt
  <2>1. UNCHANGED <<tempoCount, keyOffset, speed, key, slot, pc, then, file, mishaps>>
    BY <1>4 DEF EventWrite, Toggle, LastEvent, Halt, java, params
  <2>2. \/ UNCHANGED <<thr, taken>>
        \/ UNCHANGED thr /\ taken.cmd = "toggle" /\ taken' = Empty
        \/ thr = "play" /\ thr' = "drain" /\ taken = Empty /\ taken' = Empty
        \/ thr' = "none" /\ taken' = Empty
    BY <1>4 DEF EventWrite, Toggle, LastEvent, Halt, Playing
  <2> QED BY <2>1, <2>2 DEF CountInv, Underway, Counting, SpeedCounted, KeyCounted, At, Begun,
             Sent, Arg, Without, Empty
<1>5. CASE Take
  <2>1. /\ thr = "play" /\ taken = Empty /\ slot' = Empty /\ taken' = slot
        /\ UNCHANGED <<tempoCount, keyOffset, thr, speed, key, pc, then, file, mishaps>>
    BY <1>5 DEF Take, Playing, java, params
  <2>2. slot.arg \in Int
    BY DEF TypeOK, Slots
  <2>3. Sent("speed")' = Sent("speed") /\ Sent("key")' = Sent("key")
    BY <2>1, <2>2 DEF Sent, Arg, Empty
  <2>4. At' = At /\ Begun(speed)' = Begun(speed) /\ Begun(key)' = Begun(key)
    BY <2>1 DEF At, Begun
  <2>5. Underway'
    BY <2>1 DEF CountInv, Underway, Empty
  <2>6. SpeedCounted => SpeedCounted'
    BY <2>1, <2>3, <2>4 DEF SpeedCounted
  <2>7. KeyCounted => KeyCounted'
    BY <2>1, <2>3, <2>4 DEF KeyCounted, Empty
  <2> QED BY <2>1, <2>5, <2>6, <2>7 DEF CountInv, Counting, Without
<1>6. CASE Tune
  <2>1. /\ taken' = Empty /\ UNCHANGED <<tempoCount, thr, slot, pc, then, file, mishaps>>
        /\ taken.cmd \in {"speed", "key", "voices", "jump"}
        /\ speed' = speed + Arg(taken, "speed") /\ key' = key + Arg(taken, "key")
        /\ keyOffset' \in {keyOffset, key'}
        /\ taken.cmd # "jump" => keyOffset' = key'
    <3>1. speed + 0 = speed /\ key + 0 = key
      BY DEF TypeOK
    <3> QED BY <1>6, <3>1 DEF Tune, Restart, Arg
  <2>2. taken # Empty
    BY <2>1 DEF Empty
  <2>3. thr = "play"
    BY <2>2 DEF CountInv, Underway
  <2>4. speed \in Int /\ key \in Int /\ taken.arg \in Int /\ slot.arg \in Int
    BY DEF TypeOK, Slots
  <2>5. Underway'
    BY <2>1, <2>3 DEF CountInv, Underway, Empty
  <2>6. ASSUME Without({"dropped", "late"})' PROVE SpeedCounted' /\ KeyCounted'
    <3>1. SpeedCounted /\ KeyCounted
      BY <2>1, <2>3, <2>6 DEF CountInv, Counting, Without
    <3>2. Sent("speed")' = Arg(slot, "speed") /\ Sent("key")' = Arg(slot, "key")
      BY <2>1, <2>4 DEF Sent, Arg, Empty
    <3>3. Arg(taken, "speed") \in Int /\ Arg(taken, "key") \in Int
          /\ Arg(slot, "speed") \in Int /\ Arg(slot, "key") \in Int
      BY <2>4 DEF Arg
    <3>4. At' = At /\ Begun(speed) = speed /\ Begun(speed)' = speed'
          /\ Begun(key) = key /\ Begun(key)' = key'
      BY <2>1, <2>3 DEF At, Begun
    <3>5. /\ (Begun(speed) + Sent("speed"))' = Begun(speed) + Sent("speed")
          /\ (Begun(key) + Sent("key"))' = Begun(key) + Sent("key")
      BY <2>1, <2>4, <3>2, <3>3, <3>4 DEF Sent
    <3>6. SpeedCounted'
      BY <2>1, <3>1, <3>4, <3>5 DEF SpeedCounted
    <3>7. keyOffset' = key'
      BY <2>1, <2>4, <3>1, <3>4 DEF KeyCounted, Arg
    <3> QED BY <2>1, <3>1, <3>4, <3>5, <3>6, <3>7 DEF KeyCounted
  <2> QED BY <2>5, <2>6 DEF CountInv, Counting
<1>7. CASE SongOver
  <2>1. /\ thr = "drain" /\ thr' = "none" /\ UNCHANGED <<taken, slot, pc, then, file>>
    BY <1>7 DEF SongOver, Leave
  <2> QED BY <2>1 DEF CountInv, Underway, Counting
<1>8. ASSUME NEW s \in Settings, Event(s) PROVE CountInv'
  BY <1>8, CountFrame DEF Event, java, params
<1> QED BY <1>1, <1>2, <1>3, <1>4, <1>5, <1>6, <1>7, <1>8 DEF Thread

\* Once nothing is under way, the speed and the key the listener sees, and saves,
\* are those TiMidity plays, for any buttons and any files, unless a command was
\* dropped before the song had begun or after its last event, or load_cfg went on
\* before the last key was reported.
THEOREM CountsAreAgreed == Spec => []CountsAgree
<1>1. ASSUME TypeOK, CountInv, [Next]_vars PROVE CountInv'
  <2>1. CASE UNCHANGED vars
    BY <1>1, <2>1, CountFrame DEF vars, java, params, main, config
  <2> QED BY <1>1, <2>1, ListenerCount, HandleCount, ThreadCount DEF Next
<1>2. TypeOK /\ CountInv => CountsAgree
  BY DEF CountsAgree, Quiet, CountInv, Underway, Counting, SpeedCounted, KeyCounted, At, Begun,
         Sent, Arg, Empty, TypeOK
<1> QED BY <1>1, <1>2, InitTypeOK, NextTyped, InitCount, PTL DEF Spec

----------------------------------------------------------------------------
(* What was saved and is loaded again is heard again                       *)

\* No setting is pending but of a song that plays.
Pending == pending # NoSetting => thr = "play" /\ taken = Empty

\* What is locked is shown with the value it has.
ShownInv == thr # "none" => \A s \in Settings : cust[s] => shown[s] = value[s]

\* The file says what was heard when it was written.
Tells(f, h) ==
    /\ f.tempoCount = h.speed /\ f.keyOffset = h.key
    /\ \A s \in Settings : f.cust[s] <=> h.forced[s]
    /\ \A s \in Settings : f.cust[s] => f.shown[s] = h.value[s]
FileInv ==
    /\ heard # {} => file # {}
    /\ \A f \in file, h \in heard : Tells(f, h)

\* What is restored stays so until the listener does something else.
Rests == restored => At = "free"

\* From one step of load_cfg to the next more of the file has been sent; once it
\* is restored all of it has.
After(codes) == thr # "none" /\ (restored \/ At \in codes)
RestoreInv ==
    \A f \in file :
        /\ After({"loadTempo", "loadKey", "loadEnd"}) =>
              \A s \in Settings : /\ cust[s] <=> f.cust[s]
                                  /\ cust[s] => shown[s] = f.shown[s]
        /\ After({"loadKey", "loadEnd"}) => f.tempoCount = Begun(speed) + Sent("speed")
        /\ After({"loadEnd"}) => f.keyOffset = Begun(key) + Sent("key")

RoundInv == Pending /\ Rests /\ (mishaps = {} => ShownInv /\ FileInv /\ RestoreInv)

LEMMA History == [Next]_vars => mishaps \subseteq mishaps'
<1> SUFFICES ASSUME [Next]_vars PROVE mishaps \subseteq mishaps'
  OBVIOUS
<1>1. CASE Listener
  BY <1>1, Recorded DEF Listener, Play, Stop, Pause, Save, Load, Button, Dialog
<1>2. CASE Handle
  BY <1>2, Recorded DEF Handle, Waited, Counted, SaveWrite, LoadLocks, LoadTempo, LoadKey, LoadEnd
<1>3. CASE Thread
  BY <1>3, Recorded DEF Thread, Start, Poll, Dropped, Leave, Prepare, EventWrite, Take, Tune,
                        Toggle, Halt, LastEvent, SongOver, Event
<1>4. CASE UNCHANGED vars
  BY <1>4 DEF vars
<1> QED BY <1>1, <1>2, <1>3, <1>4 DEF Next

LEMMA NextPending == TypeOK /\ Pending /\ [Next]_vars => Pending'
<1> SUFFICES ASSUME TypeOK, Pending, [Next]_vars PROVE Pending'
  OBVIOUS
<1>1. CASE Listener
  BY <1>1 DEF Listener, Play, Stop, Pause, Save, Load, Button, Dialog, NativeUnchanged,
              channels, Pending
<1>2. CASE Handle
  BY <1>2 DEF Handle, Waited, Counted, SaveWrite, LoadLocks, LoadTempo, LoadKey, LoadEnd,
              NativeUnchanged, channels, Pending
<1>3. CASE Thread
  <2>1. CASE Start \/ Poll \/ Prepare \/ SongOver
    BY <2>1 DEF Start, Poll, Prepare, SongOver, channels, Pending
  <2>2. CASE EventWrite
    BY <2>2 DEF EventWrite, Pending
  <2>3. CASE Take \/ LastEvent
    BY <2>3 DEF Take, LastEvent, Playing, channels, Pending
  <2>4. CASE Tune \/ Toggle \/ Halt
    BY <2>4 DEF Tune, Toggle, Halt, channels, Pending, Empty
  <2>5. ASSUME NEW s \in Settings, Event(s) PROVE Pending'
    BY <2>5 DEF Event, Playing, Pending
  <2> QED BY <1>3, <2>1, <2>2, <2>3, <2>4, <2>5 DEF Thread
<1>4. CASE UNCHANGED vars
  BY <1>4 DEF vars, channels, Pending
<1> QED BY <1>1, <1>2, <1>3, <1>4 DEF Next

\* Every action of the listener forgets what was restored, and starts none of the
\* later steps of load_cfg.
LEMMA ListenerForgets ==
    ASSUME Underway, Listener
    PROVE  ~restored' /\ At' \notin {"loadTempo", "loadKey", "loadEnd"}
BY DEF Listener, Play, Stop, Pause, Save, Load, Button, Dialog, Call, JNIPause, WaitThen, At

LEMMA NextRests == TypeOK /\ Underway /\ Rests /\ [Next]_vars => Rests'
<1> SUFFICES ASSUME TypeOK, Underway, Rests, [Next]_vars PROVE Rests'
  OBVIOUS
<1>1. CASE Listener
  BY <1>1, ListenerForgets DEF Rests
<1>2. CASE Waited
  BY <1>2 DEF Waited, Rests, Underway, At
<1>3. CASE Counted \/ SaveWrite \/ LoadLocks \/ LoadTempo \/ LoadKey
  <2>1. restored' = restored /\ pc \notin {"wait", "free"}
    BY <1>3 DEF Counted, SaveWrite, LoadLocks, LoadTempo, LoadKey
  <2> QED BY <2>1 DEF Rests, At
<1>4. CASE LoadEnd
  BY <1>4 DEF LoadEnd, WaitThen, Rests, At
<1>5. CASE Thread \/ UNCHANGED vars
  <2>1. UNCHANGED main
    BY <1>5 DEF Thread, Start, Poll, Prepare, EventWrite, Take, Tune, Toggle, Halt, LastEvent,
                SongOver, Event, MainUnchanged, vars
  <2> QED BY <2>1 DEF main, Rests, At
<1> QED BY <1>1, <1>2, <1>3, <1>4, <1>5 DEF Next, Handle

\* The play thread leaves alone what is locked and shown as locked.
LEMMA ThreadLocks ==
    ASSUME TypeOK, Agree, TornInv, Pending, Underway, Thread, mishaps' = {}, thr' # "none"
    PROVE  /\ thr # "none" /\ cust' = cust
           /\ \A s \in Settings : cust[s] => value'[s] = value[s] /\ shown'[s] = shown[s]
<1>1. mishaps = {}
  BY History DEF Next
<1>2. CASE Start \/ Poll \/ Take \/ Toggle \/ Halt \/ LastEvent \/ SongOver
  BY <1>2 DEF Start, Poll, Leave, Take, Toggle, Halt, LastEvent, Playing, SongOver, channels, java,
              Underway, Empty
<1>3. CASE Prepare
  <2>1. thr = "load" /\ UNCHANGED <<cust, shown>>
    BY <1>3 DEF Prepare
  <2>2. PICK p \in [Programs -> Values] :
            /\ value' = [s \in Settings |-> IF ~forced'[s] THEN Default
                                            ELSE IF s \in Programs THEN p[s] ELSE value[s]]
            /\ Record(When("scanned", \E s \in Programs : forced'[s] /\ p[s] # value[s]))
    BY <1>3 DEF Prepare
  <2>3. forced' = [s \in Settings |-> forced[s] /\ ~die]
    BY <1>3 DEF Prepare
  <2>4. When("scanned", \E s \in Programs : forced'[s] /\ p[s] # value[s]) = {}
    BY <2>2, Recorded
  <2>5. ~\E s \in Programs : forced'[s] /\ p[s] # value[s]
    BY <2>4 DEF When
  <2>6. \A s \in Settings : cust[s] => forced'[s]
    BY <2>1, <2>3 DEF Agree, LoadingAgree
  <2> QED BY <2>1, <2>2, <2>5, <2>6
<1>4. CASE EventWrite
  <2>1. /\ thr = "play" /\ cust' = cust
        /\ value' = [s \in Settings |-> IF s \in pending.on THEN pending.to ELSE value[s]]
        /\ shown' = [s \in Settings |-> IF s \in pending.on THEN pending.to ELSE shown[s]]
    BY <1>4 DEF EventWrite, Pending
  <2>2. \A s \in Settings : cust[s] => s \notin pending.on
    BY <1>1, <2>1 DEF TornInv, Agree, PlayingAgree
  <2> QED BY <2>1, <2>2
<1>5. CASE Tune
  <2>1. thr = "play" /\ UNCHANGED <<cust, shown>>
    BY <1>5 DEF Tune, Underway, Empty
  <2>2. \A s \in Settings : forced[s] => value'[s] = value[s]
    BY <1>5 DEF Tune, Restart
  <2> QED BY <2>1, <2>2 DEF Agree, PlayingAgree
<1>6. ASSUME NEW s \in Settings, Event(s)
      PROVE  thr = "play" /\ UNCHANGED <<cust, shown, value>>
  BY <1>6 DEF Event, Playing, java
<1> QED BY <1>2, <1>3, <1>4, <1>5, <1>6 DEF Thread

\* What it has, with what it was sent, stays the same.
LEMMA ThreadSums ==
    ASSUME TypeOK, Underway, Thread, mishaps' = {}, thr' # "none"
    PROVE  /\ (Begun(speed) + Sent("speed"))' = Begun(speed) + Sent("speed")
           /\ (Begun(key) + Sent("key"))' = Begun(key) + Sent("key")
<1>0. /\ speed \in Int /\ key \in Int /\ taken.arg \in Int /\ slot.arg \in Int
  BY DEF TypeOK, Slots
<1>1. CASE Start
  <2>1. /\ thr = "start" /\ thr' = "load" /\ key' = 0 /\ speed' = 0
        /\ slot' = Empty /\ taken' = taken
        /\ When("dropped", slot.cmd \in {"speed", "key", "voices"}) = {}
    BY <1>1, Recorded DEF Start, Dropped
  <2>2. taken = Empty
    BY <2>1 DEF Underway
  <2>3. slot.cmd \notin {"speed", "key", "voices"}
    BY <2>1 DEF When
  <2> QED BY <2>1, <2>2, <2>3 DEF Begun, Sent, Arg, Empty
<1>2. CASE Poll
  <2>1. /\ thr \in {"load", "drain"} /\ thr' = thr /\ slot' = Empty
        /\ UNCHANGED <<speed, key, taken>>
        /\ When("dropped", slot.cmd \in {"speed", "key", "voices"}) = {}
    BY <1>2, Recorded DEF Poll, Dropped, Leave, params
  <2>2. slot.cmd \notin {"speed", "key", "voices"}
    BY <2>1 DEF When
  <2> QED BY <2>1, <2>2 DEF Begun, Sent, Arg, Empty
<1>3. CASE Tune
  <2>1. /\ taken' = Empty /\ UNCHANGED <<thr, slot>>
        /\ taken.cmd \in {"speed", "key", "voices", "jump"}
        /\ speed' = speed + Arg(taken, "speed") /\ key' = key + Arg(taken, "key")
    <3>1. speed + 0 = speed /\ key + 0 = key
      BY <1>0
    <3> QED BY <1>3, <3>1 DEF Tune, Arg
  <2>2. thr = "play"
    BY <2>1 DEF Underway, Empty
  <2>3. Arg(taken, "speed") \in Int /\ Arg(taken, "key") \in Int
        /\ Arg(slot, "speed") \in Int /\ Arg(slot, "key") \in Int
    BY <1>0 DEF Arg
  <2>4. Sent("speed")' = Arg(slot, "speed") /\ Sent("key")' = Arg(slot, "key")
    BY <2>1, <2>3 DEF Sent, Arg, Empty
  <2>5. Begun(speed) = speed /\ Begun(speed)' = speed' /\ Begun(key) = key /\ Begun(key)' = key'
    BY <2>1, <2>2 DEF Begun
  <2> QED BY <1>0, <2>1, <2>3, <2>4, <2>5 DEF Sent
<1>4. CASE Take
  <2>1. /\ taken = Empty /\ slot' = Empty /\ taken' = slot /\ UNCHANGED <<thr, speed, key>>
    BY <1>4 DEF Take, Playing, params
  <2> QED BY <1>0, <2>1 DEF Begun, Sent, Arg, Empty
<1>5. CASE Prepare \/ EventWrite \/ LastEvent \/ \E s \in Settings : Event(s)
  <2>1. /\ UNCHANGED <<speed, key, slot, taken>>
        /\ thr' = thr \/ (thr # "start" /\ thr' # "start")
    BY <1>5 DEF Prepare, EventWrite, LastEvent, Playing, Event, params
  <2> QED BY <2>1 DEF Begun, Sent, Arg
<1>6. CASE Toggle
  <2>1. UNCHANGED <<speed, key, slot, thr>> /\ taken' = Empty /\ taken.cmd = "toggle"
    BY <1>6 DEF Toggle, params
  <2> QED BY <2>1 DEF Begun, Sent, Arg, Empty
<1>7. CASE Halt \/ SongOver
  BY <1>7 DEF Halt, SongOver, Leave
<1> QED BY <1>1, <1>2, <1>3, <1>4, <1>5, <1>6, <1>7 DEF Thread

LEMMA LockedShown ==
    ASSUME ShownInv, thr' = thr, NEW all, NEW lock, lock \subseteq all, NEW to,
           Locked(all, lock, to)
    PROVE  ShownInv'
BY DEF ShownInv, Locked

LEMMA NextShown ==
    TypeOK /\ Agree /\ TornInv /\ Pending /\ Underway /\ ShownInv /\ [Next]_vars /\ mishaps' = {}
        => ShownInv'
<1> SUFFICES ASSUME TypeOK, Agree, TornInv, Pending, Underway, ShownInv, [Next]_vars, mishaps' = {}
             PROVE  ShownInv'
  OBVIOUS
<1>1. ASSUME UNCHANGED <<thr, cust, shown, value>> PROVE ShownInv'
  BY <1>1 DEF ShownInv
<1>2. CASE Play
  BY <1>2 DEF Play, ShownInv
<1>3. ASSUME NEW s \in Settings, NEW on, NEW v, Dialog(s, on, v) PROVE ShownInv'
  <2>1. Locked({s}, When(s, on), [r \in Settings |-> v]) /\ thr' = thr
    BY <1>3 DEF Dialog
  <2>2. When(s, on) \subseteq {s}
    BY DEF When
  <2> QED BY <2>1, <2>2, LockedShown
<1>4. CASE Stop \/ Pause \/ Save \/ Load \/ \E b \in Buttons : Button(b[1], b[2])
  BY <1>1, <1>4 DEF Stop, Pause, Save, Load, Button, NativeUnchanged, java, channels
<1>5. CASE LoadLocks
  <2>1. PICK lock, to : lock \subseteq Settings /\ Locked(Settings, lock, to)
    BY <1>5 DEF LoadLocks
  <2>2. thr' = thr
    BY <1>5 DEF LoadLocks
  <2> QED BY <2>1, <2>2, LockedShown
<1>6. CASE Waited \/ Counted \/ SaveWrite \/ LoadTempo \/ LoadKey \/ LoadEnd
  BY <1>1, <1>6 DEF Waited, Counted, SaveWrite, LoadTempo, LoadKey, LoadEnd, NativeUnchanged,
                    java, channels
<1>7. CASE Thread
  BY <1>7, ThreadLocks DEF ShownInv
<1>8. CASE UNCHANGED vars
  BY <1>1, <1>8 DEF vars, java, channels
<1> QED BY <1>2, <1>3, <1>4, <1>5, <1>6, <1>7, <1>8 DEF Next, Listener, Handle

\* The file is written with what the song has, as nothing is under way that counts.
LEMMA NextFile ==
    TypeOK /\ Agree /\ Underway /\ Counting /\ ShownInv /\ FileInv /\ [Next]_vars /\ mishaps' = {}
        => FileInv'
<1> SUFFICES ASSUME TypeOK, Agree, Underway, Counting, ShownInv, FileInv, [Next]_vars, mishaps' = {}
             PROVE  FileInv'
  OBVIOUS
<1>1. ASSUME UNCHANGED <<file, heard>> PROVE FileInv'
  BY <1>1 DEF FileInv, Tells
<1>2. CASE SaveWrite
  <2>1. /\ pc \in {"saveWrite", "savePaused"}
        /\ file' = {[cust |-> cust, shown |-> shown, tempoCount |-> tempoCount,
                     keyOffset |-> keyOffset, maxvoice |-> maxvoice]}
        /\ heard' = IF thr # "play" THEN {}
                    ELSE {[forced |-> forced, value |-> value, speed |-> speed, key |-> key]}
        /\ When("late", taken.cmd \in {"key", "speed"}) = {}
    BY <1>2, Recorded DEF SaveWrite
  <2>2. taken.cmd \notin {"key", "speed"} /\ slot.cmd \notin {"key", "speed"}
    BY <2>1 DEF When, Underway
  <2>3. CASE thr # "play"
    BY <2>1, <2>3 DEF FileInv
  <2>4. CASE thr = "play"
    <3>1. SpeedCounted /\ KeyCounted
      BY <2>4 DEF Counting
    <3>2. tempoCount = speed
      BY <2>1, <2>2, <2>4, <3>1 DEF SpeedCounted, Begun, Sent, Arg, At, TypeOK
    <3>3. keyOffset = key
      BY <2>2, <2>4, <3>1 DEF KeyCounted, Begun
    <3>4. \A s \in Settings : (cust[s] <=> forced[s]) /\ (cust[s] => shown[s] = value[s])
      BY <2>4 DEF Agree, PlayingAgree, ShownInv
    <3>5. file' # {} /\ \A f \in file', h \in heard' :
            /\ f.tempoCount = tempoCount /\ h.speed = speed /\ f.keyOffset = keyOffset /\ h.key = key
            /\ f.cust = cust /\ h.forced = forced /\ f.shown = shown /\ h.value = value
      BY <2>1, <2>4
    <3> QED BY <3>2, <3>3, <3>4, <3>5 DEF FileInv, Tells
  <2> QED BY <2>3, <2>4
<1>3. CASE Listener
  BY <1>1, <1>3 DEF Listener, Play, Stop, Pause, Save, Load, Button, Dialog, config
<1>4. CASE Waited \/ Counted \/ LoadLocks \/ LoadTempo \/ LoadKey \/ LoadEnd
  BY <1>1, <1>4 DEF Waited, Counted, LoadLocks, LoadTempo, LoadKey, LoadEnd, config
<1>5. CASE Thread
  BY <1>1, <1>5 DEF Thread, Start, Poll, Prepare, EventWrite, Take, Tune, Toggle, Halt, LastEvent,
                    SongOver, Event, MainUnchanged, config
<1>6. CASE UNCHANGED vars
  BY <1>1, <1>6 DEF vars, config
<1> QED BY <1>2, <1>3, <1>4, <1>5, <1>6 DEF Next, Handle

\* Each step of load_cfg adds to what of the file has been sent, and nothing but
\* the listener takes it back.
LEMMA NextRestore ==
    /\ TypeOK /\ Agree /\ TornInv /\ Pending /\ Rests /\ Underway /\ Counting /\ RestoreInv
    /\ [Next]_vars /\ mishaps' = {}
    => RestoreInv'
<1> SUFFICES ASSUME TypeOK, Agree, TornInv, Pending, Rests, Underway, Counting, RestoreInv,
                    [Next]_vars, mishaps' = {}
             PROVE  RestoreInv'
  OBVIOUS
<1>1. CASE Listener
  BY <1>1, ListenerForgets DEF RestoreInv, After
<1>2. CASE Waited
  <2>1. At' = At
    BY <1>2 DEF Waited, Underway, At
  <2>2. UNCHANGED <<file, thr, restored, cust, shown, speed, key, slot, taken>>
    BY <1>2 DEF Waited, java, params, config
  <2> QED BY <2>1, <2>2 DEF RestoreInv, After, Begun, Sent, Arg
<1>3. CASE Counted \/ SaveWrite
  <2>1. ~restored /\ restored' = restored
    BY <1>3 DEF Counted, SaveWrite, Rests, At
  <2>2. At' = "free"
    BY <1>3 DEF Counted, SaveWrite, WaitThen, At
  <2> QED BY <2>1, <2>2 DEF RestoreInv, After
<1>4. CASE LoadLocks
  <2>1. PICK f \in file :
            /\ Locked(Settings, {s \in Settings : f.cust[s]}, f.shown)
            /\ SendDifference("speed", f.tempoCount - tempoCount, "loadTempo")
    BY <1>4 DEF LoadLocks
  <2>2. pc = "loadLocks" /\ UNCHANGED <<file, restored>>
    BY <1>4 DEF LoadLocks, config
  <2>3. ~restored
    BY <2>2 DEF Rests, At
  <2>4. At' = "loadTempo"
    BY <2>1 DEF SendDifference, WaitThen, At
  <2>5. \A s \in Settings : (cust'[s] <=> f.cust[s]) /\ (cust'[s] => shown'[s] = f.shown[s])
    BY <2>1 DEF Locked
  <2>6. \A g \in file : g = f
    BY DEF Underway
  <2> QED BY <2>2, <2>3, <2>4, <2>5, <2>6 DEF RestoreInv, After
<1>5. CASE LoadTempo
  <2>1. /\ pc = "loadTempo" /\ UNCHANGED <<file, restored, thr, cust, shown, speed, taken>>
        /\ \E n \in Int : SendDifference("key", n, "loadKey")
    <3>1. \A f \in file : f.keyOffset - keyOffset \in Int
      BY DEF TypeOK, Files
    <3> QED BY <1>5, <3>1 DEF LoadTempo, NativeUnchanged, params, config
  <2>2. ~restored /\ At = "loadTempo"
    BY <2>1 DEF Rests, At
  <2>3. At' = "loadKey" /\ slot.cmd # "speed" /\ slot'.cmd # "speed"
    BY <2>1 DEF SendDifference, Send, WaitThen, At, Underway
  <2>4. (Begun(speed) + Sent("speed"))' = Begun(speed) + Sent("speed")
    BY <2>1, <2>3 DEF Begun, Sent, Arg
  <2>5. thr # "none" => \A f \in file : Begun(speed) + Sent("speed") = f.tempoCount
    BY <2>2 DEF Counting, SpeedCounted
  <2> QED BY <2>1, <2>2, <2>3, <2>4, <2>5 DEF RestoreInv, After
<1>6. CASE LoadKey
  <2>1. /\ pc = "loadKey" /\ UNCHANGED <<file, restored, thr, cust, shown, speed, key, taken>>
        /\ \E n \in Int : SendDifference("voices", n, "loadEnd")
    <3>1. \A f \in file : f.maxvoice - maxvoice \in Int
      BY VoicesAssumption DEF TypeOK, Files
    <3> QED BY <1>6, <3>1 DEF LoadKey, NativeUnchanged, params, config
  <2>2. ~restored /\ At = "loadKey"
    BY <2>1 DEF Rests, At
  <2>3. At' = "loadEnd" /\ {slot.cmd, slot'.cmd} \cap {"speed", "key"} = {}
    BY <2>1 DEF SendDifference, Send, WaitThen, At, Underway
  <2>4. /\ (Begun(speed) + Sent("speed"))' = Begun(speed) + Sent("speed")
        /\ (Begun(key) + Sent("key"))' = Begun(key) + Sent("key")
    BY <2>1, <2>3 DEF Begun, Sent, Arg
  <2>5. thr # "none" => \A f \in file : Begun(key) + Sent("key") = f.keyOffset
    BY <2>2 DEF Counting, KeyCounted
  <2> QED BY <2>1, <2>2, <2>3, <2>4, <2>5 DEF RestoreInv, After
<1>7. CASE LoadEnd
  <2>1. /\ pc = "loadEnd" /\ UNCHANGED <<file, thr, cust, shown, speed, key, taken>>
        /\ slot' = slot \/ slot'.cmd = "jump"
    BY <1>7 DEF LoadEnd, Send, NativeUnchanged, java, params, config
  <2>2. At = "loadEnd" /\ {slot.cmd, slot'.cmd} \cap {"speed", "key"} = {}
    BY <2>1 DEF At, Underway
  <2>3. /\ (Begun(speed) + Sent("speed"))' = Begun(speed) + Sent("speed")
        /\ (Begun(key) + Sent("key"))' = Begun(key) + Sent("key")
    BY <2>1, <2>2 DEF Begun, Sent, Arg
  <2> QED BY <2>1, <2>2, <2>3 DEF RestoreInv, After
<1>8. CASE Thread
  <2>1. UNCHANGED <<file, restored, pc, then>>
    BY <1>8 DEF Thread, Start, Poll, Prepare, EventWrite, Take, Tune, Toggle, Halt, LastEvent,
                SongOver, Event, MainUnchanged, main, config
  <2>2. At' = At
    BY <2>1 DEF At
  <2>3. CASE thr' = "none"
    BY <2>3 DEF RestoreInv, After
  <2>4. CASE thr' # "none"
    <3>1. /\ thr # "none" /\ cust' = cust
          /\ \A s \in Settings : cust[s] => shown'[s] = shown[s]
      BY <1>8, <2>4, ThreadLocks
    <3>2. /\ (Begun(speed) + Sent("speed"))' = Begun(speed) + Sent("speed")
          /\ (Begun(key) + Sent("key"))' = Begun(key) + Sent("key")
      BY <1>8, <2>4, ThreadSums
    <3> QED BY <2>1, <2>2, <3>1, <3>2 DEF RestoreInv, After
  <2> QED BY <2>3, <2>4
<1>9. CASE UNCHANGED vars
  BY <1>9 DEF vars, java, params, main, config, RestoreInv, After, At, Begun, Sent, Arg
<1> QED BY <1>1, <1>2, <1>3, <1>4, <1>5, <1>6, <1>7, <1>8, <1>9 DEF Next, Handle

\* What was saved and is loaded again brings back what was heard when it was saved -
\* speed, key, locks and what is locked - into the same song or another, for any
\* channels, values and buttons, unless one of the named races was lost.
THEOREM RestoredIsHeard == Spec => []RoundTrip
<1>1. Init => TornInv /\ AgreeInv /\ RoundInv
  BY DEF Init, NoSetting, TornInv, AgreeInv, Agree, PlayingAgree, LoadingAgree, IdleAgree, RoundInv,
         Pending, Rests, ShownInv, FileInv, RestoreInv, Empty
<1>2. /\ TypeOK /\ TornInv /\ AgreeInv /\ CountInv /\ RoundInv /\ [Next]_vars
      => RoundInv'
  <2> SUFFICES ASSUME TypeOK, TornInv, AgreeInv, CountInv, RoundInv, [Next]_vars PROVE RoundInv'
    OBVIOUS
  <2>1. Pending' /\ Rests'
    BY NextPending, NextRests DEF RoundInv, CountInv
  <2>2. ASSUME mishaps' = {} PROVE ShownInv' /\ FileInv' /\ RestoreInv'
    <3>1. mishaps = {}
      BY <2>2, History
    <3>2. Agree /\ Counting /\ Underway
      BY <3>1 DEF AgreeInv, CountInv, Without
    <3> QED BY <2>2, <3>1, <3>2, NextShown, NextFile, NextRestore DEF RoundInv
  <2> QED BY <2>1, <2>2 DEF RoundInv
<1>3. TypeOK /\ AgreeInv /\ RoundInv => RoundTrip
  <2> SUFFICES ASSUME TypeOK, AgreeInv, RoundInv, restored, Quiet, mishaps = {},
                      NEW h \in heard
               PROVE  /\ speed = h.speed /\ key = h.key /\ forced = h.forced
                      /\ \A s \in Settings : forced[s] => value[s] = h.value[s]
    BY DEF RoundTrip, Without, TypeOK, Mishaps
  <2>1. PICK f \in file : Tells(f, h)
    BY DEF RoundInv, FileInv
  <2>2. thr = "play" /\ slot = Empty /\ taken = Empty
    BY DEF Quiet
  <2>3. /\ f.tempoCount = Begun(speed) + Sent("speed") /\ f.keyOffset = Begun(key) + Sent("key")
        /\ \A s \in Settings : (cust[s] <=> f.cust[s]) /\ (cust[s] => shown[s] = f.shown[s])
    BY <2>2 DEF RoundInv, RestoreInv, After
  <2>4. speed = f.tempoCount /\ key = f.keyOffset
    BY <2>2, <2>3 DEF Begun, Sent, Arg, Empty, TypeOK
  <2>5. \A s \in Settings : (forced[s] <=> cust[s]) /\ (cust[s] => shown[s] = value[s])
    BY <2>2 DEF AgreeInv, Agree, PlayingAgree, Without, RoundInv, ShownInv
  <2>6. \A s \in Settings : forced[s] <=> h.forced[s]
    BY <2>1, <2>3, <2>5 DEF Tells
  <2>7. forced = h.forced
    <3>1. forced \in [Settings -> BOOLEAN] /\ h.forced \in [Settings -> BOOLEAN]
      BY DEF TypeOK, Sounds
    <3>2. ASSUME NEW s \in Settings PROVE forced[s] = h.forced[s]
      <4>1. forced[s] \in BOOLEAN /\ h.forced[s] \in BOOLEAN
        BY <3>1
      <4> QED BY <2>6, <4>1
    <3> QED BY <3>1, <3>2
  <2> QED BY <2>1, <2>3, <2>4, <2>5, <2>7 DEF Tells
<1>4. TypeOK /\ CountInv /\ [Next]_vars => CountInv'
  <2>1. CASE UNCHANGED vars
    BY <2>1, CountFrame DEF vars, java, params, main, config
  <2> QED BY <2>1, ListenerCount, HandleCount, ThreadCount DEF Next
<1> QED BY <1>1, <1>2, <1>3, <1>4, InitTypeOK, NextTyped, NextTorn, NextAgree, InitCount, PTL
        DEF Spec

=============================================================================
