-------------------------- MODULE PlaybackProofs --------------------------
(***************************************************************************)
(* Proofs about module Playback, for any set of threads, of songs and of   *)
(* commands: the types, that there is one play thread at a time            *)
(* (OneThread), that the state says what this thread does (StateHolds),    *)
(* and that TiMidity is paused exactly when the state says so              *)
(* (PauseHolds), until one of the listed races is lost.                    *)
(***************************************************************************)
EXTENDS Playback, TLAPS

\* The initial state has the types of the variables.
LEMMA InitTypeOK == Init => TypeOK
BY DEF Init, TypeOK, States, AllFormats, AllCommands, Code, MainCode, Posts

\* Going to a location keeps every play thread at a location.
LEMMA GotoTyped ==
    ASSUME NEW t \in Threads, NEW c \in Code \cup {"dead"},
           thr \in [Threads -> Code \cup {"dead"}], Goto(t, c)
    PROVE  thr' \in [Threads -> Code \cup {"dead"}]
BY DEF Goto

\* The history only ever holds kinds of accidents.
LEMMA RecordTyped ==
    ASSUME accidents \in SUBSET Accidents, NEW kinds \in SUBSET Accidents, Record(kinds)
    PROVE  accidents' \in SUBSET Accidents
BY DEF Record

LEMMA WhenTyped ==
    ASSUME NEW kind \in Accidents, NEW condition
    PROVE  When(kind, condition) \in SUBSET Accidents
BY DEF When

\* controlTimidity leaves a command in the slot.
LEMMA PostTyped ==
    ASSUME NEW cmd \in Posts, droid_rc \in Posts, Post(cmd)
    PROVE  /\ droid_rc' \in Posts
           /\ UNCHANGED <<play_pause_flag, stopSox, jumps>>
BY DEF Post

LEMMA PostAccidentsTyped == PostAccidents \in SUBSET Accidents
<1>1. /\ When("overwritten", droid_rc # "none") \in SUBSET Accidents
      /\ When("unread", ~Listening) \in SUBSET Accidents
  BY DEF When, Accidents
<1> QED BY <1>1 DEF PostAccidents

\* TiMidity's pause flag stays a flag.
LEMMA ToggledTyped == play_pause_flag \in BOOLEAN => Toggled \in BOOLEAN
BY Zenon DEF Toggled

\* What a step of TiMidity's thread has to establish.
LEMMA TimidityTyped ==
    ASSUME TypeOK, TimidityUnchanged,
           state' \in States, droid_rc' \in Posts, play_pause_flag' \in BOOLEAN,
           thr' \in [Threads -> Code \cup {"dead"}], accidents' \in SUBSET Accidents
    PROVE  TypeOK'
BY DEF TypeOK, TimidityUnchanged, main

\* Every step of every thread keeps the types.
LEMMA NextTypeOK == TypeOK /\ [Next]_vars => TypeOK'
<1> SUFFICES ASSUME TypeOK, [Next]_vars PROVE TypeOK'
  OBVIOUS
<1> USE DEF TypeOK, java, native, main
<1> USE DEF States, Posts, Accidents, Code, TimidityCode, SoxCode, MainCode, AllFormats, AllCommands
<1>1. CASE CallPlay
  BY <1>1, SongsAssumption DEF CallPlay
<1>2. CASE Stable
  BY <1>2 DEF Stable
<1>3. CASE CallStop
  BY <1>3 DEF CallStop
<1>4. CASE StopCheck
  BY <1>4 DEF StopCheck, AfterStop
<1>5. CASE ReqStop
  BY <1>5 DEF ReqStop, Record, When
<1>6. CASE StopBackend
  <2>1. /\ pc' = AfterStop
        /\ UNCHANGED <<mediaBackendFormat, playThread, thr, recovering,
                       job, song, oldstate>>
    BY <1>6 DEF StopBackend
  <2>2. pc' \in MainCode
    BY <2>1 DEF AfterStop
  <2>3. /\ state' \in States /\ listener' \in BOOLEAN
        /\ droid_rc' \in Posts /\ stopSox' \in BOOLEAN
        /\ UNCHANGED <<play_pause_flag, jumps>>
        /\ accidents' \in SUBSET Accidents
    <3>1. CASE mediaBackendFormat = "MEDIAPLAYER"
      BY <1>6, <3>1 DEF StopBackend
    <3>2. CASE mediaBackendFormat = "SOX"
      BY <1>6, <3>2 DEF StopBackend
    <3>3. CASE mediaBackendFormat = "TIMIDITY"
      <4>1. /\ Post("stop") /\ Record(PostAccidents) /\ UNCHANGED <<state, listener>>
        BY <1>6, <3>3 DEF StopBackend
      <4>2. droid_rc' \in Posts /\ UNCHANGED <<play_pause_flag, stopSox, jumps>>
        BY <4>1, PostTyped
      <4>3. accidents' \in SUBSET Accidents
        BY <4>1, PostAccidentsTyped, RecordTyped
      <4> QED BY <4>1, <4>2, <4>3
    <3> QED BY <3>1, <3>2, <3>3
  <2> QED BY <2>1, <2>2, <2>3
<1>7. CASE WaitForStop
  BY <1>7 DEF WaitForStop
<1>9. CASE Refused(-1)
  BY <1>9 DEF Refused, Record, When
<1>10. CASE Refused(-9)
  BY <1>10 DEF Refused, Record, When
<1>11. CASE Start
  <2>1. /\ pc' = "idle" /\ mediaBackendFormat' = song
        /\ UNCHANGED <<recovering, native, job, song, oldstate>>
    BY <1>11 DEF Start
  <2>2. /\ state' \in States /\ listener' \in BOOLEAN
        /\ playThread' \in Threads \cup {"none"}
        /\ thr' \in [Threads -> Code \cup {"dead"}]
    BY <1>11 DEF Start
  <2>3. accidents' \in SUBSET Accidents
    BY <1>11, RecordTyped, WhenTyped DEF Start
  <2> QED BY <2>1, <2>2, <2>3
<1>12. CASE Fail
  BY <1>12 DEF Fail
<1>13. CASE CallPause
  BY <1>13 DEF CallPause
<1>14. CASE PauseTest
  BY <1>14 DEF PauseTest
<1>15. CASE Pausing
  BY <1>15 DEF Pausing, Record, When
<1>16. CASE TogglePost
  <2>1. pc' \in MainCode /\ UNCHANGED <<java, thr, recovering, job, song, oldstate>>
    BY <1>16 DEF TogglePost
  <2>2. CASE mediaBackendFormat = "TIMIDITY"
    <3>1. Post("toggle") /\ Record(PostAccidents)
      BY <1>16, <2>2 DEF TogglePost
    <3>2. droid_rc' \in Posts /\ UNCHANGED <<play_pause_flag, stopSox, jumps>>
      BY <3>1, PostTyped
    <3>3. accidents' \in SUBSET Accidents
      BY <3>1, PostAccidentsTyped, RecordTyped
    <3> QED BY <2>1, <3>2, <3>3
  <2>3. CASE mediaBackendFormat # "TIMIDITY"
    <3>1. UNCHANGED <<native, accidents>>
      BY <1>16, <2>3 DEF TogglePost
    <3> QED BY <2>1, <3>1
  <2> QED BY <2>2, <2>3
<1>17. CASE Resumed
  BY <1>17 DEF Resumed, Record, When
<1>18. CASE CallSeek
  BY <1>18 DEF CallSeek
<1>19. CASE Seeking
  BY <1>19 DEF Seeking, Record, When
<1>20. CASE SeekPost
  <2>1. pc' \in MainCode /\ UNCHANGED <<java, thr, recovering, job, song, oldstate>>
    BY <1>20 DEF SeekPost
  <2>2. CASE mediaBackendFormat = "SOX"
    BY <1>20, <2>1, <2>2 DEF SeekPost
  <2>3. CASE mediaBackendFormat # "SOX"
    <3>1. Post("jump") /\ Record(PostAccidents)
      BY <1>20, <2>3 DEF SeekPost
    <3>2. droid_rc' \in Posts /\ UNCHANGED <<play_pause_flag, stopSox, jumps>>
      BY <3>1, PostTyped
    <3>3. accidents' \in SUBSET Accidents
      BY <3>1, PostAccidentsTyped, RecordTyped
    <3> QED BY <2>1, <3>2, <3>3
  <2> QED BY <2>2, <2>3
<1>21. CASE SeekWait
  BY <1>21 DEF SeekWait
<1>22. CASE Restore
  BY <1>22 DEF Restore, Record, When
<1>23. CASE Completed
  <2>1. /\ listener' \in BOOLEAN /\ state' \in States
        /\ UNCHANGED <<mediaBackendFormat, playThread, thr, recovering,
                       native, main, accidents>>
    BY <1>23 DEF Completed
  <2> QED BY <2>1
<1>24. CASE SeeError
  BY <1>24 DEF SeeError
<1>25. CASE Recover
  <2>1. /\ recovering' \in BOOLEAN /\ state' \in States
        /\ UNCHANGED <<mediaBackendFormat, playThread, listener, thr, native, main>>
    BY <1>25 DEF Recover
  <2>2. accidents' \in SUBSET Accidents
    BY <1>25, RecordTyped, WhenTyped DEF Recover
  <2> QED BY <2>1, <2>2
<1>26. ASSUME NEW t \in Threads, Thread(t) PROVE TypeOK'
  <2>1. CASE TimStart(t)
    BY <2>1 DEF TimStart, Goto, TimidityUnchanged
  <2>2. CASE TimEntry(t)
    <3>1. thr' \in [Threads -> Code \cup {"dead"}]
      BY <2>2, GotoTyped DEF TimEntry
    <3>2. play_pause_flag' \in BOOLEAN
      BY <2>2, ToggledTyped DEF TimEntry
    <3>3. state' \in States /\ droid_rc' \in Posts /\ TimidityUnchanged
      BY <2>2 DEF TimEntry
    <3>4. accidents' \in SUBSET Accidents
      BY <2>2, RecordTyped, WhenTyped DEF TimEntry
    <3> QED BY <3>1, <3>2, <3>3, <3>4, TimidityTyped
  <2>3. CASE LoadPoll(t)
    <3>1. thr' \in [Threads -> Code \cup {"dead"}]
      BY <2>3, GotoTyped DEF LoadPoll
    <3>2. play_pause_flag' \in BOOLEAN
      BY <2>3, ToggledTyped DEF LoadPoll
    <3>3. state' \in States /\ droid_rc' \in Posts /\ TimidityUnchanged
      BY <2>3 DEF LoadPoll
    <3>4. accidents' \in SUBSET Accidents
      BY <2>3, RecordTyped, WhenTyped DEF LoadPoll
    <3> QED BY <3>1, <3>2, <3>3, <3>4, TimidityTyped
  <2>4. CASE Load(t)
    <3>1. thr' \in [Threads -> Code \cup {"dead"}]
      BY <2>4, GotoTyped DEF Load
    <3>2. play_pause_flag' \in BOOLEAN
      BY <2>4, ToggledTyped DEF Load
    <3>3. state' \in States /\ droid_rc' \in Posts /\ TimidityUnchanged
      BY <2>4 DEF Load
    <3>4. accidents' \in SUBSET Accidents
      BY <2>4, RecordTyped, WhenTyped DEF Load
    <3> QED BY <3>1, <3>2, <3>3, <3>4, TimidityTyped
  <2>5. CASE Midi(t)
    <3>1. thr' \in [Threads -> Code \cup {"dead"}]
      BY <2>5, GotoTyped DEF Midi
    <3>2. play_pause_flag' \in BOOLEAN
      BY <2>5, ToggledTyped DEF Midi
    <3>3. state' \in States /\ droid_rc' \in Posts /\ TimidityUnchanged
      BY <2>5 DEF Midi
    <3>4. accidents' \in SUBSET Accidents
      BY <2>5, RecordTyped, WhenTyped DEF Midi
    <3> QED BY <3>1, <3>2, <3>3, <3>4, TimidityTyped
  <2>6. CASE LastEvent(t)
    BY <2>6 DEF LastEvent, Goto, TimidityUnchanged
  <2>7. CASE Drain(t)
    <3>1. thr' \in [Threads -> Code \cup {"dead"}]
      BY <2>7, GotoTyped DEF Drain
    <3>2. play_pause_flag' \in BOOLEAN
      BY <2>7, ToggledTyped DEF Drain
    <3>3. state' \in States /\ droid_rc' \in Posts /\ TimidityUnchanged
      BY <2>7 DEF Drain
    <3>4. accidents' \in SUBSET Accidents
      BY <2>7, RecordTyped, WhenTyped DEF Drain
    <3> QED BY <3>1, <3>2, <3>3, <3>4, TimidityTyped
  <2>8. CASE PlayEnd(t)
    BY <2>8 DEF PlayEnd, Goto, TimidityUnchanged
  <2>9. CASE FinishAE(t)
    BY <2>9 DEF FinishAE, Goto, TimidityUnchanged
  <2>10. CASE Tail(t)
    BY <2>10 DEF Tail, Goto, TimidityUnchanged
  <2>11. CASE Finish(t)
    BY <2>11 DEF Finish, Goto
  <2>12. CASE SoxStart(t)
    BY <2>12 DEF SoxStart, Goto, SoxUnchanged
  <2>13. CASE SoxOpen(t)
    <3>1. thr' \in [Threads -> Code \cup {"dead"}]
      BY <2>13, GotoTyped DEF SoxOpen
    <3>2. /\ stopSox' \in BOOLEAN /\ jumps' \in BOOLEAN
          /\ UNCHANGED state /\ SoxUnchanged
      BY <2>13 DEF SoxOpen
    <3>3. accidents' \in SUBSET Accidents
      BY <2>13, RecordTyped, WhenTyped DEF SoxOpen
    <3> QED BY <3>1, <3>2, <3>3 DEF SoxUnchanged
  <2>14. CASE SoxWrite(t)
    BY <2>14 DEF SoxWrite, Goto, SoxUnchanged
  <2>15. CASE SoxUpdate(t)
    <3>1. thr' \in [Threads -> Code \cup {"dead"}]
      BY <2>15, GotoTyped DEF SoxUpdate
    <3>2. /\ stopSox' \in BOOLEAN /\ jumps' \in BOOLEAN
          /\ UNCHANGED state /\ SoxUnchanged
      BY <2>15 DEF SoxUpdate
    <3>3. accidents' \in SUBSET Accidents
      BY <2>15, RecordTyped, WhenTyped DEF SoxUpdate
    <3> QED BY <3>1, <3>2, <3>3 DEF SoxUnchanged
  <2>16. CASE SoxOver(t)
    BY <2>16 DEF SoxOver, Goto, SoxUnchanged
  <2>17. CASE SoxError(t)
    BY <2>17 DEF SoxError, Goto, SoxUnchanged
  <2> QED BY <1>26, <2>1, <2>2, <2>3, <2>4, <2>5, <2>6, <2>7, <2>8, <2>9, <2>10, <2>11, <2>12, <2>13, <2>14, <2>15, <2>16, <2>17 DEF Thread, Timidity, Sox
<1>27. CASE UNCHANGED vars
  BY <1>27 DEF vars
<1> QED BY <1>1, <1>2, <1>3, <1>4, <1>5, <1>6, <1>7, <1>9, <1>10, <1>11, <1>12, <1>13, <1>14, <1>15, <1>16, <1>17, <1>18, <1>19, <1>20, <1>21, <1>22, <1>23, <1>24, <1>25, <1>26, <1>27 DEF Next, Main, Handle, Watcher


\* The types hold in every behaviour.
THEOREM Typing == Spec => []TypeOK
BY InitTypeOK, NextTypeOK, PTL DEF Spec

----------------------------------------------------------------------------
\* No thread is alive when the program starts.
LEMMA InitThreadInv == Init => ThreadInv
BY DEF Init, ThreadInv, Alive

\* A step of a play thread is the step of a thread that is alive; it changes no
\* other thread and nothing the main thread decides.
LEMMA ThreadStep ==
    ASSUME NEW t \in Threads, TypeOK, Thread(t)
    PROVE  /\ Alive(t)
           /\ \A u \in Threads \ {t} : thr'[u] = thr[u]
           /\ UNCHANGED <<pc, job, playThread, mediaBackendFormat>>
<1>1. CASE Timidity(t)
  <2>1. CASE TimStart(t) \/ TimEntry(t) \/ LoadPoll(t) \/ Load(t) \/ Midi(t)
    BY <2>1 DEF TypeOK, Alive, Goto, TimidityUnchanged, main,
                TimStart, TimEntry, LoadPoll, Load, Midi
  <2>2. CASE LastEvent(t) \/ Drain(t) \/ PlayEnd(t) \/ FinishAE(t)
    BY <2>2 DEF TypeOK, Alive, Goto, TimidityUnchanged, main,
                LastEvent, Drain, PlayEnd, FinishAE
  <2>3. CASE Tail(t) \/ Finish(t)
    BY <2>3 DEF TypeOK, Alive, Goto, TimidityUnchanged, main, Tail, Finish
  <2> QED BY <1>1, <2>1, <2>2, <2>3 DEF Timidity
<1>2. CASE Sox(t)
  BY <1>2 DEF TypeOK, Alive, Goto, SoxUnchanged, main, Sox,
              SoxStart, SoxOpen, SoxWrite, SoxUpdate, SoxOver, SoxError
<1> QED BY <1>1, <1>2 DEF Thread

\* The main thread starts a thread only after it joined the previous one.
LEMMA NextThreadInv == TypeOK /\ ThreadInv /\ [Next]_vars => ThreadInv'
<1> SUFFICES ASSUME TypeOK, ThreadInv, [Next]_vars PROVE ThreadInv'
  OBVIOUS
<1> DEFINE NoneAlive == \A t \in Threads : ~Alive(t)
<1>1. CASE UNCHANGED <<pc, job, thr, playThread, mediaBackendFormat>>
  BY <1>1 DEF ThreadInv, Alive
<1>2. CASE CallPlay \/ CallStop \/ CallPause \/ CallSeek
  BY <1>2 DEF ThreadInv, Alive, CallPlay, CallStop, CallPause, CallSeek, java
<1>3. CASE Stable \/ StopCheck \/ ReqStop \/ StopBackend
  BY <1>3 DEF ThreadInv, Alive, AfterStop, java, Stable, StopCheck, ReqStop, StopBackend
<1>4. CASE WaitForStop
  <2>1. NoneAlive
    BY <1>4 DEF WaitForStop, ThreadInv, TypeOK
  <2> QED BY <1>4, <2>1 DEF WaitForStop, ThreadInv, Alive, java
<1>6. CASE Refused(-1) \/ Refused(-9)
  BY <1>6 DEF Refused, ThreadInv, Alive, java
<1>7. CASE Start
  <2>1. NoneAlive /\ pc' = "idle" /\ job' = job /\ mediaBackendFormat' = song
    BY <1>7 DEF Start, ThreadInv
  <2>2. CASE song = "MEDIAPLAYER"
    BY <1>7, <2>1, <2>2 DEF Start, ThreadInv, Alive
  <2>3. CASE song # "MEDIAPLAYER"
    <3>1. PICK t \in Threads : playThread' = t /\ \A u \in Threads \ {t} : thr'[u] = thr[u]
      BY <1>7, <2>3 DEF Start, TypeOK
    <3>2. \A u \in Threads : Alive(u)' => u = playThread'
      BY <2>1, <3>1 DEF Alive
    <3> QED BY <2>1, <2>3, <3>2 DEF ThreadInv
  <2> QED BY <2>2, <2>3
<1>8. CASE Fail
  BY <1>8 DEF Fail, ThreadInv, Alive
<1>9. CASE PauseTest \/ Pausing \/ TogglePost \/ Resumed
  BY <1>9 DEF ThreadInv, Alive, java, PauseTest, Pausing, TogglePost, Resumed
<1>10. CASE Seeking \/ SeekPost \/ SeekWait \/ Restore
  BY <1>10 DEF ThreadInv, Alive, java, Seeking, SeekPost, SeekWait, Restore
<1>11. CASE Completed \/ Watcher
  BY <1>1, <1>11 DEF Completed, Watcher, SeeError, Recover, main, java
<1>12. ASSUME NEW t \in Threads, Thread(t) PROVE ThreadInv'
  <2>1. /\ Alive(t)
        /\ \A u \in Threads \ {t} : thr'[u] = thr[u]
        /\ UNCHANGED <<pc, job, playThread, mediaBackendFormat>>
    BY <1>12, ThreadStep
  <2> QED BY <2>1 DEF ThreadInv, Alive
<1> QED BY <1>1, <1>2, <1>3, <1>4, <1>6, <1>7, <1>8, <1>9, <1>10, <1>11, <1>12
        DEF Next, Main, Handle, vars, java, main

\* The play thread is the one in JNIHandler.playThread, and it is over whenever
\* a song is started or the backend is MediaPlayer.
THEOREM OnlyPlayThread == Spec => []ThreadInv
<1>1. TypeOK /\ ThreadInv /\ [Next]_vars => ThreadInv'
  BY NextThreadInv
<1> QED BY <1>1, InitThreadInv, Typing, PTL DEF Spec

\* There are never two play threads.
THEOREM OneThread == Spec => []SingleThread
<1>1. ThreadInv => SingleThread
  BY DEF ThreadInv, SingleThread
<1> QED BY <1>1, OnlyPlayThread, PTL

-----------------------------------------------------------------------------
(***************************************************************************)
(* The state and the pause flag.                                           *)
(*                                                                         *)
(* Both properties speak of an idle main thread.  Between two steps of a   *)
(* handler the state is ahead of the backend or behind it, so that the     *)
(* invariants say for each of those steps what is still owed: the stop not *)
(* yet posted, the state not yet restored, the toggle not yet sent or not  *)
(* yet read.  A write that meets another state than the one tested before  *)
(* is recorded as "stale", which is what excuses it.                       *)
(***************************************************************************)
SeekCode == {"seekPost", "seekWait", "restore"}

\* What each state says of the backend; what the main thread still owes is
\* allowed for.
StateInv ==
    /\ state = "LOADING" =>
          "prepare" \in accidents \/ \E t \in Threads : thr[t] \in {"timStart", "soxStart"}
    /\ state \in {"PLAYING", "PAUSED"} => listener \/ \E t \in Threads : thr[t] \in GoingOn
    /\ state \in {"REQSTOP", "STOPPING"} =>
          (\E t \in Threads : Alive(t)) \/ (listener /\ pc = "stopBackend")
    /\ state = "SEEKING" => pc \in SeekCode /\ \E t \in Threads : thr[t] \in GoingOn
    /\ state \in {"IDLE", "ERROR"} => ~listener /\ ~Listening
    /\ listener => mediaBackendFormat = "MEDIAPLAYER"
    /\ \A t \in Threads : thr[t] \in {"tail", "finish"} => state = "IDLE"
    /\ \A t \in Threads : thr[t] # "stopping"
    /\ pc \in SeekCode => oldstate \in {"PLAYING", "PAUSED"}
    /\ pc \in {"start", "fail"} => ~listener
    /\ pc = "seeking" => mediaBackendFormat # "MEDIAPLAYER"

LEMMA InitStateInv == Init => StateInv
BY DEF Init, StateInv, SeekCode, Listening, Polls, Alive

\* The thread that takes a step is the only one.
LEMMA Alone ==
    ASSUME NEW t \in Threads, TypeOK, ThreadInv, Thread(t)
    PROVE  /\ \A u \in Threads \ {t} : thr[u] = "dead" /\ thr'[u] = "dead"
           /\ pc \notin {"start", "fail"}
           /\ mediaBackendFormat # "MEDIAPLAYER"
           /\ UNCHANGED <<pc, job, oldstate, playThread, mediaBackendFormat, listener>>
<1>1. /\ Alive(t) /\ \A u \in Threads \ {t} : thr'[u] = thr[u]
      /\ UNCHANGED <<pc, job, playThread, mediaBackendFormat>>
  BY ThreadStep
<1>2. UNCHANGED <<oldstate, listener>>
  <2>1. CASE Timidity(t)
    BY <2>1 DEF Timidity, TimStart, TimEntry, LoadPoll, Load, Midi, LastEvent, Drain,
                PlayEnd, FinishAE, Tail, Finish, TimidityUnchanged, main
  <2>2. CASE Sox(t)
    BY <2>2 DEF Sox, SoxStart, SoxOpen, SoxWrite, SoxUpdate, SoxOver, SoxError,
                SoxUnchanged, main
  <2> QED BY <2>1, <2>2 DEF Thread
<1> QED BY <1>1, <1>2 DEF ThreadInv, Alive

\* A thread moves within the song, or writes the state before it leaves it.
LEMMA ThreadState ==
    ASSUME NEW t \in Threads, TypeOK, ThreadInv, StateInv, Thread(t)
    PROVE  StateInv'
<1> DEFINE old == thr[t]
           new == thr'[t]
<1>1. /\ \A u \in Threads \ {t} : thr[u] = "dead" /\ thr'[u] = "dead"
      /\ pc \notin {"start", "fail"} /\ ~listener
      /\ UNCHANGED <<pc, oldstate, mediaBackendFormat, listener>>
  BY Alone DEF StateInv
<1>2. "prepare" \in accidents => "prepare" \in accidents'
  BY Zenon DEF Thread, Timidity, Sox, TimStart, TimEntry, LoadPoll, Load, Midi, LastEvent,
               Drain, PlayEnd, FinishAE, Tail, Finish, SoxStart, SoxOpen, SoxWrite,
               SoxUpdate, SoxOver, SoxError, Record
<1>3. /\ old \in Code /\ new \in Code \cup {"dead"}
      /\ \/ state' = state /\ old \in GoingOn /\ new \in GoingOn
              /\ (new \in Polls => old \in Polls)
         \/ state' = state /\ old \in {"tail", "finish"} /\ new \in {"finish", "dead"}
         \/ state' = state /\ old = "soxSilence" /\ new = "soxIdle"
         \/ state' = state /\ state = "REQSTOP" /\ old = "soxOver" /\ new = "soxIdle"
         \/ state' = "PLAYING" /\ old \in {"timStart", "soxStart"} /\ new \in GoingOn
         \/ state' = "IDLE" /\ new \in {"return", "tail", "dead"}
         \/ state' = "STOPPING" /\ new = "soxSilence"
         \/ state' = "ERROR" /\ new = "dead"
  <2>1. thr \in [Threads -> Code \cup {"dead"}] /\ old # "stopping"
    BY DEF TypeOK, StateInv
  <2>2. \A c : Goto(t, c) => new = c
    BY <2>1 DEF Goto
  <2> HIDE DEF new, old
  <2>3. old = "tail" => state = "IDLE"
    BY DEF StateInv, old
  <2> USE DEF GoingOn, Polls, Code, TimidityCode, SoxCode
  <2>4. CASE TimStart(t) \/ TimEntry(t) \/ LoadPoll(t) \/ Load(t)
    <3>1. LoadPoll(t) /\ thr' = thr => new = old
      BY DEF new, old
    <3> QED BY <2>2, <2>4, <3>1 DEF old, TimStart, TimEntry, LoadPoll, Load
  <2>5. CASE Midi(t) \/ LastEvent(t) \/ Drain(t)
    <3>1. thr' = thr => new = old
      BY DEF new, old
    <3> QED BY <2>2, <2>5, <3>1 DEF old, Midi, LastEvent, Drain
  <2>6. CASE PlayEnd(t) \/ FinishAE(t) \/ Tail(t) \/ Finish(t)
    BY <2>1, <2>2, <2>3, <2>6 DEF old, PlayEnd, FinishAE, Tail, Finish
  <2>7. CASE Sox(t)
    BY <2>2, <2>7 DEF old, Sox, SoxStart, SoxOpen, SoxWrite, SoxUpdate, SoxOver, SoxError
  <2> QED BY <2>4, <2>5, <2>6, <2>7 DEF Thread, Timidity
<1> HIDE DEF old, new
<1>4. /\ \A u \in Threads : u # t => thr'[u] = "dead"
      /\ thr'[t] = new /\ thr[t] = old
  BY <1>1 DEF old, new
<1>5. state = "LOADING" =>
          "prepare" \in accidents \/ old \in {"timStart", "soxStart"}
  BY <1>1, <1>4 DEF StateInv
<1>6. state \in {"PLAYING", "PAUSED", "SEEKING"} => old \in GoingOn
  BY <1>1, <1>4 DEF StateInv, GoingOn
<1>7. /\ state = "SEEKING" => pc \in SeekCode
      /\ pc \in SeekCode => oldstate \in {"PLAYING", "PAUSED"}
      /\ state \in {"IDLE", "ERROR"} => old \notin Polls
  BY <1>4 DEF StateInv, Listening
<1>8. old \in {"tail", "finish"} => state = "IDLE"
  BY <1>4 DEF StateInv
<1>9. /\ state' = "LOADING" => "prepare" \in accidents'
      /\ state' \in {"PLAYING", "PAUSED", "SEEKING"} => new \in GoingOn
      /\ state' \in {"REQSTOP", "STOPPING"} => new # "dead"
      /\ state' = "SEEKING" => pc \in SeekCode
      /\ state' \in {"IDLE", "ERROR"} => new \notin Polls
      /\ new \in {"tail", "finish"} => state' = "IDLE"
      /\ new # "stopping"
  BY <1>2, <1>3, <1>5, <1>6, <1>7, <1>8 DEF GoingOn, Polls
<1>10. Listening' => new \in Polls
  BY <1>4 DEF Listening, Polls
<1> QED BY <1>1, <1>4, <1>7, <1>9, <1>10 DEF StateInv, Alive

\* The steps of the main thread and of the watcher, with the threads as they are.
LEMMA MainState ==
    ASSUME TypeOK, ThreadInv, StateInv, Main \/ Watcher, "stale" \notin accidents'
    PROVE  StateInv'
<1> USE DEF StateInv, SeekCode, java, native, main
<1>1. CASE CallPlay \/ Stable \/ CallStop \/ StopCheck
  BY <1>1 DEF CallPlay, Stable, CallStop, StopCheck, AfterStop, Listening, Alive
<1>2. CASE CallPause \/ PauseTest \/ SeekWait
  BY <1>2 DEF CallPause, PauseTest, SeekWait, Listening, Alive
<1>3. CASE ReqStop
  BY <1>3 DEF ReqStop, Record, When, isActive, Listening, Alive, GoingOn
<1>4. CASE StopBackend
  <2>1. CASE mediaBackendFormat = "MEDIAPLAYER"
    BY <1>4, <2>1 DEF StopBackend, AfterStop, ThreadInv, Listening, Alive, Polls
  <2>2. CASE mediaBackendFormat # "MEDIAPLAYER"
    <3>1. UNCHANGED <<state, listener, thr, mediaBackendFormat, oldstate>>
      BY <1>4, <2>2 DEF StopBackend
    <3>2. pc = "stopBackend" /\ pc' \in {"idle", "join"}
      BY <1>4 DEF StopBackend, AfterStop
    <3>3. "prepare" \in accidents => "prepare" \in accidents'
      BY <1>4, Zenon DEF StopBackend, Record
    <3> QED BY <2>2, <3>1, <3>2, <3>3 DEF Listening, Alive
  <2> QED BY <2>1, <2>2
<1>5. CASE WaitForStop
  <2>1. mediaBackendFormat = "MEDIAPLAYER" => state = "IDLE"
    BY <1>5 DEF WaitForStop
  <2> QED BY <1>5, <2>1 DEF WaitForStop, Listening, Alive
<1>6. CASE Refused(-1) \/ Refused(-9)
  BY <1>6 DEF Refused, Listening, Alive
<1>7. CASE Start
  <2>1. \A t \in Threads : thr[t] = "dead"
    BY <1>7 DEF Start, ThreadInv, Alive
  <2>2. CASE song = "MEDIAPLAYER"
    <3>1. /\ listener' = (state' = "PLAYING") /\ state' \in {"PLAYING", "LOADING"}
          /\ state' = "LOADING" => "prepare" \in accidents'
      BY <1>7, <2>2 DEF Start, Record, When
    <3>2. mediaBackendFormat' = "MEDIAPLAYER" /\ pc' = "idle" /\ UNCHANGED <<thr, oldstate>>
      BY <1>7, <2>2 DEF Start
    <3> QED BY <2>1, <3>1, <3>2 DEF Listening, Alive, Polls
  <2>3. CASE song # "MEDIAPLAYER"
    <3>1. PICK t \in Threads : thr' = [thr EXCEPT ![t] = IF song = "SOX" THEN "soxStart"
                                                                       ELSE "timStart"]
      BY <1>7, <2>3 DEF Start
    <3>2. thr \in [Threads -> Code \cup {"dead"}]
      BY DEF TypeOK
    <3>3. /\ thr'[t] \in {"timStart", "soxStart"}
          /\ \A u \in Threads : u # t => thr'[u] = "dead"
      BY <2>1, <3>1, <3>2
    <3>4. state' = "LOADING" /\ pc' = "idle" /\ ~listener' /\ UNCHANGED oldstate
      BY <1>7, <2>3 DEF Start
    <3> QED BY <3>3, <3>4 DEF Listening, Alive
  <2> QED BY <2>2, <2>3
<1>8. CASE Fail
  BY <1>8 DEF Fail, ThreadInv, Listening, Alive, Polls
<1>9. CASE Pausing \/ Resumed
  BY <1>9 DEF Pausing, Resumed, Record, When, Listening, Alive
<1>10. CASE TogglePost
  <2>1. /\ UNCHANGED <<state, listener, thr, mediaBackendFormat, oldstate>>
        /\ pc' \in {"idle", "resumed"} /\ pc \in {"pausePost", "resumePost"}
    BY <1>10 DEF TogglePost
  <2>2. "prepare" \in accidents => "prepare" \in accidents'
    BY <1>10, Zenon DEF TogglePost, Record
  <2> QED BY <2>1, <2>2 DEF Listening, Alive
<1>11. CASE CallSeek
  BY <1>11 DEF CallSeek, Listening, Alive
<1>12. CASE Seeking
  <2>1. /\ state' = "SEEKING" /\ pc' = "seekPost" /\ pc = "seeking"
        /\ UNCHANGED <<listener, thr, mediaBackendFormat, oldstate>>
        /\ isActive /\ state = oldstate
    BY <1>12 DEF Seeking, Record, When
  <2> QED BY <2>1 DEF isActive, Listening, Alive
<1>13. CASE SeekPost
  <2>1. /\ UNCHANGED <<state, listener, thr, mediaBackendFormat, oldstate>>
        /\ pc = "seekPost" /\ pc' \in {"seekWait", "restore"}
    BY <1>13 DEF SeekPost
  <2>2. "prepare" \in accidents => "prepare" \in accidents'
    BY <1>13, Zenon DEF SeekPost, Record
  <2> QED BY <2>1, <2>2 DEF Listening, Alive
<1>14. CASE Restore
  <2>1. /\ state' = oldstate /\ state = "SEEKING" /\ pc = "restore" /\ pc' = "idle"
        /\ UNCHANGED <<listener, thr, mediaBackendFormat, oldstate>>
    BY <1>14 DEF Restore, Record, When
  <2> QED BY <2>1 DEF Listening, Alive
<1>15. CASE Completed
  BY <1>15 DEF Completed, ThreadInv, Listening, Alive, Polls
<1>16. CASE SeeError
  BY <1>16 DEF SeeError, Listening, Alive
<1>17. CASE Recover
  <2>1. /\ state' = "IDLE" /\ state = "ERROR"
        /\ UNCHANGED <<pc, listener, thr, mediaBackendFormat, oldstate>>
    BY <1>17 DEF Recover, Record, When
  <2> QED BY <2>1 DEF Listening, Alive
<1> QED BY <1>1, <1>2, <1>3, <1>4, <1>5, <1>6, <1>7, <1>8, <1>9, <1>10, <1>11, <1>12,
           <1>13, <1>14, <1>15, <1>16, <1>17 DEF Main, Handle, Watcher

\* A lost race is remembered.
LEMMA AccidentsStay == [Next]_vars => accidents \subseteq accidents'
<1> SUFFICES ASSUME [Next]_vars PROVE accidents \subseteq accidents'
  OBVIOUS
<1>1. CASE Main
  BY <1>1, Zenon DEF Main, Handle, CallPlay, CallStop, CallPause, CallSeek, Completed, Stable,
     StopCheck, ReqStop, StopBackend, WaitForStop, Refused, Start, Fail, PauseTest, Pausing,
     TogglePost, Resumed, Seeking, SeekPost, SeekWait, Restore, Record
<1>2. CASE Watcher
  BY <1>2, Zenon DEF Watcher, SeeError, Recover, Record
<1>3. ASSUME NEW t \in Threads, Thread(t) PROVE accidents \subseteq accidents'
  BY <1>3, Zenon DEF Thread, Timidity, Sox, TimStart, TimEntry, LoadPoll, Load, Midi, LastEvent,
     Drain, PlayEnd, FinishAE, Tail, Finish, SoxStart, SoxOpen, SoxWrite,
     SoxUpdate, SoxOver, SoxError, Record
<1>4. CASE UNCHANGED vars
  BY <1>4 DEF vars
<1> QED BY <1>1, <1>2, <1>3, <1>4 DEF Next

StateHeld == "stale" \notin accidents => StateInv

LEMMA NextStateHeld == TypeOK /\ ThreadInv /\ StateHeld /\ [Next]_vars => StateHeld'
<1> SUFFICES ASSUME TypeOK, ThreadInv, StateHeld, [Next]_vars, "stale" \notin accidents'
             PROVE  StateInv'
  BY DEF StateHeld
<1>1. StateInv
  BY AccidentsStay DEF StateHeld
<1>2. CASE UNCHANGED vars
  BY <1>1, <1>2 DEF vars, java, native, main, StateInv, Listening, Alive
<1> QED BY <1>1, <1>2, MainState, ThreadState DEF Next

\* For any threads, songs and commands: whenever the main thread is free the state
\* is the one of the play thread, unless a stale state was written over or
\* MediaPlayer could not be prepared.
THEOREM StateHolds == Spec => []StateIsTrue
<1>1. TypeOK /\ StateHeld => StateIsTrue
  <2> SUFFICES ASSUME TypeOK, StateInv, pc = "idle", "prepare" \notin accidents
               PROVE  CASE state = "LOADING" -> \E t \in Threads : thr[t] \in {"timStart", "soxStart"}
                        [] state \in {"PLAYING", "PAUSED"} ->
                              listener \/ \E t \in Threads : thr[t] \in GoingOn
                        [] state \in {"REQSTOP", "STOPPING"} -> \E t \in Threads : Alive(t)
                        [] state = "SEEKING" -> FALSE
                        [] OTHER -> ~listener /\ ~Listening
    BY DEF StateHeld, StateIsTrue, Without
  <2>1. CASE state = "LOADING"
    BY <2>1 DEF StateInv
  <2>2. CASE state \in {"PLAYING", "PAUSED"}
    BY <2>2 DEF StateInv
  <2>3. CASE state \in {"REQSTOP", "STOPPING"}
    BY <2>3 DEF StateInv
  <2>4. state # "SEEKING"
    BY DEF StateInv, SeekCode
  <2>5. CASE state \in {"IDLE", "ERROR"}
    BY <2>5 DEF StateInv
  <2> QED BY <2>1, <2>2, <2>3, <2>4, <2>5 DEF TypeOK, States
<1>2. Init => StateHeld
  BY InitStateInv DEF StateHeld
<1> QED BY <1>1, <1>2, NextStateHeld, Typing, OnlyPlayThread, PTL DEF Spec

-----------------------------------------------------------------------------
(***************************************************************************)
(* Pause and resume.  The toggles TiMidity has applied and the one in the  *)
(* slot add up to what the state says, except between the two halves of a  *)
(* pause (the state is written first) and of a resume (it is written       *)
(* last), and once a stop is on its way.                                   *)
(***************************************************************************)

\* The flag TiMidity will have when it has read the slot.
WillPause == ~(play_pause_flag <=> droid_rc = "toggle")
Wanted == state = "PAUSED" \/ (state = "SEEKING" /\ oldstate = "PAUSED")

\* What holds while a thread that polls the slot is at code c.
PauseAt(c) ==
    /\ mediaBackendFormat = "TIMIDITY"
    /\ c = "timStart" => state = "LOADING" /\ droid_rc = "none"
    /\ c \in {"timStart", "timEntry"} => ~play_pause_flag
    /\ c # "timStart" => state \in {"PLAYING", "PAUSED", "SEEKING", "REQSTOP"}
    /\ pc \in {"pausePost", "resumed"} => state = "PAUSED" /\ ~WillPause
    /\ pc = "resumePost" => state = "PAUSED"
    /\ pc \in SeekCode => state = "SEEKING"
    /\ pc = "stopBackend" => state = "REQSTOP"
    /\ state \in {"PLAYING", "PAUSED", "SEEKING"} /\ pc \notin {"pausePost", "resumed"} =>
          (WillPause <=> Wanted)
    /\ state = "REQSTOP" /\ pc # "stopBackend" =>
          droid_rc = "stop" \/ (~play_pause_flag /\ droid_rc # "toggle")

PauseInv == \A t \in Threads : thr[t] \in Polls => PauseAt(thr[t])

LEMMA InitPauseInv == Init => PauseInv
BY DEF Init, PauseInv, Polls

\* A thread that reads the slot applies the toggle it finds; a stop ends the song
\* except at the poll of play_midi_file, which comes before any toggle.
LEMMA ThreadPause ==
    ASSUME NEW t \in Threads, TypeOK, ThreadInv, PauseInv, Thread(t)
    PROVE  PauseInv'
<1>0. PICK new : new = thr'[t]
  OBVIOUS
<1>1. /\ \A u \in Threads \ {t} : thr'[u] = "dead"
      /\ UNCHANGED <<pc, oldstate, mediaBackendFormat>>
  BY Alone
<1>2. /\ thr \in [Threads -> Code \cup {"dead"}] /\ play_pause_flag \in BOOLEAN
      /\ droid_rc \in {"none", "toggle", "jump", "stop"}
  BY DEF TypeOK, Posts
<1>3. \A c : Goto(t, c) => new = c
  BY <1>0, <1>2 DEF Goto
<1>4. thr' = thr => new = thr[t]
  BY <1>0
<1>5. ASSUME new \in Polls PROVE PauseAt(new)'
  <2>1. CASE TimStart(t)
    <3>1. new = "timEntry" /\ state' = "PLAYING" /\ UNCHANGED <<droid_rc, play_pause_flag>>
      BY <1>3, <2>1 DEF TimStart
    <3>2. PauseAt("timStart")
      BY <2>1 DEF PauseInv, TimStart, Polls
    <3> QED BY <1>1, <1>2, <3>1, <3>2 DEF PauseAt, WillPause, Wanted, SeekCode
  <2>2. CASE TimEntry(t)
    <3>1. new = "load" /\ droid_rc' = "none" /\ play_pause_flag' = Toggled /\ UNCHANGED state
      BY <1>3, <2>2 DEF TimEntry
    <3>2. PauseAt("timEntry")
      BY <2>2 DEF PauseInv, TimEntry, Polls
    <3>3. /\ play_pause_flag' <=> droid_rc = "toggle"
          /\ WillPause <=> droid_rc = "toggle"
          /\ WillPause' <=> play_pause_flag'
      BY <1>2, <3>1, <3>2 DEF PauseAt, WillPause, Toggled
    <3> QED BY <1>1, <3>1, <3>2, <3>3 DEF PauseAt, Wanted, SeekCode
  <2>3. CASE LoadPoll(t) \/ Midi(t) \/ (Drain(t) /\ droid_rc # "none")
    <3>1. /\ new = thr[t] /\ thr[t] \in {"load", "midi", "drain"}
          /\ droid_rc \in {"toggle", "jump"} /\ droid_rc' = "none" /\ UNCHANGED state
      BY <1>2, <1>3, <1>4, <1>5, <2>3 DEF LoadPoll, Midi, Drain, Polls
    <3>2. play_pause_flag' = Toggled
      BY <1>3, <1>5, <2>3, <3>1 DEF LoadPoll, Midi, Drain, Toggled, Polls
    <3>3. PauseAt(thr[t])
      BY <3>1 DEF PauseInv, Polls
    <3>4. /\ WillPause' <=> WillPause
          /\ droid_rc = "jump" => (play_pause_flag' <=> play_pause_flag)
      BY <1>2, <3>1, <3>2 DEF WillPause, Toggled
    <3> QED BY <1>1, <3>1, <3>3, <3>4 DEF PauseAt, Wanted, SeekCode
  <2>4. CASE Load(t) \/ LastEvent(t) \/ (Drain(t) /\ droid_rc = "none")
    <3>1. /\ new \in {"midi", "drain"} /\ thr[t] \in {"load", "midi"}
          /\ UNCHANGED <<state, droid_rc, play_pause_flag>>
      BY <1>3, <1>5, <2>4 DEF Load, LastEvent, Drain, Polls
    <3>2. PauseAt(thr[t])
      BY <3>1 DEF PauseInv, Polls
    <3> QED BY <1>1, <3>1, <3>2 DEF PauseAt, WillPause, Wanted, SeekCode
  <2>5. CASE \/ PlayEnd(t) \/ FinishAE(t) \/ Tail(t) \/ Finish(t) \/ Sox(t)
    <3>1. new \notin Polls
      BY <1>3, <2>5 DEF PlayEnd, FinishAE, Tail, Finish, Sox, SoxStart, SoxOpen, SoxWrite,
         SoxUpdate, SoxOver, SoxError, Polls
    <3> QED BY <1>5, <3>1
  <2> QED BY <2>1, <2>2, <2>3, <2>4, <2>5 DEF Thread, Timidity
<1>6. ASSUME NEW u \in Threads, thr'[u] \in Polls PROVE PauseAt(thr[u])'
  <2>1. u = t
    BY <1>1, <1>6 DEF Polls
  <2>2. thr'[u] = new /\ PauseAt(new)'
    BY <1>0, <1>5, <1>6, <2>1
  <2> QED BY <2>2 DEF PauseAt
<1> QED BY <1>6 DEF PauseInv

\* A command that is not written over another is in the slot.
LEMMA Posted ==
    ASSUME NEW cmd, Post(cmd), Record(PostAccidents), "overwritten" \notin accidents'
    PROVE  droid_rc = "none" /\ droid_rc' = cmd /\ UNCHANGED play_pause_flag
BY DEF Post, Record, PostAccidents, When

\* The main thread while a thread at code c polls the slot.
LEMMA MainPauseAt ==
    ASSUME TypeOK, ThreadInv, StateInv, NEW t \in Threads, NEW c \in Polls, thr[t] = c,
           PauseAt(c), Main \/ Watcher, {"stale", "overwritten"} \cap accidents' = {}
    PROVE  thr'[t] = c /\ PauseAt(c)'
<1>1. /\ state \notin {"IDLE", "ERROR"} /\ ~listener /\ mediaBackendFormat = "TIMIDITY"
      /\ pc \notin {"start", "fail"} /\ "stale" \notin accidents'
      /\ "overwritten" \notin accidents' /\ play_pause_flag \in BOOLEAN
      /\ state = "SEEKING" => pc \in SeekCode
      /\ pc \in SeekCode => oldstate \in {"PLAYING", "PAUSED"}
  BY DEF StateInv, Listening, PauseAt, ThreadInv, Alive, Polls, TypeOK
<1> USE DEF PauseAt, Wanted, WillPause, java, native, main
<1>2. CASE CallPlay \/ Stable \/ CallStop \/ StopCheck \/ CallPause \/ PauseTest
  BY <1>1, <1>2 DEF CallPlay, Stable, CallStop, StopCheck, AfterStop, CallPause, PauseTest, SeekCode
<1>3. CASE ReqStop
  BY <1>1, <1>3 DEF ReqStop, Record, When, isActive, SeekCode
<1>4. CASE StopBackend
  <2>1. Post("stop") /\ Record(PostAccidents)
    BY <1>1, <1>4 DEF StopBackend
  <2>2. droid_rc' = "stop" /\ UNCHANGED play_pause_flag
    BY <1>1, <2>1, Posted
  <2>3. /\ UNCHANGED <<state, thr, mediaBackendFormat, oldstate>>
        /\ pc = "stopBackend" /\ pc' \in {"idle", "join"}
    BY <1>1, <1>4 DEF StopBackend, AfterStop
  <2> QED BY <2>2, <2>3 DEF SeekCode
<1>5. CASE WaitForStop
  BY <1>5 DEF WaitForStop, SeekCode
<1>6. CASE Refused(-1) \/ Refused(-9) \/ Start \/ Fail \/ Completed
  BY <1>1, <1>6 DEF Refused, Start, Fail, Completed
<1>7. CASE Pausing
  BY <1>1, <1>7 DEF Pausing, Record, When, SeekCode
<1>8. CASE TogglePost
  <2>1. Post("toggle") /\ Record(PostAccidents)
    BY <1>1, <1>8 DEF TogglePost
  <2>2. droid_rc = "none" /\ droid_rc' = "toggle" /\ UNCHANGED play_pause_flag
    BY <1>1, <2>1, Posted
  <2>3. /\ UNCHANGED <<state, thr, mediaBackendFormat, oldstate>>
        /\ \/ pc = "pausePost" /\ pc' = "idle"
           \/ pc = "resumePost" /\ pc' = "resumed"
    BY <1>8 DEF TogglePost
  <2> QED BY <1>1, <2>2, <2>3 DEF SeekCode
<1>9. CASE Resumed
  BY <1>1, <1>9 DEF Resumed, Record, When, SeekCode
<1>10. CASE CallSeek
  BY <1>1, <1>10 DEF CallSeek, SeekCode
<1>11. CASE Seeking
  BY <1>1, <1>11 DEF Seeking, Record, When, isActive, SeekCode
<1>12. CASE SeekPost
  <2>1. Post("jump") /\ Record(PostAccidents)
    BY <1>1, <1>12 DEF SeekPost
  <2>2. droid_rc = "none" /\ droid_rc' = "jump" /\ UNCHANGED play_pause_flag
    BY <1>1, <2>1, Posted
  <2>3. /\ UNCHANGED <<state, thr, mediaBackendFormat, oldstate>>
        /\ pc = "seekPost" /\ pc' = "seekWait"
    BY <1>1, <1>12 DEF SeekPost
  <2> QED BY <1>1, <2>2, <2>3 DEF SeekCode
<1>13. CASE SeekWait
  BY <1>13 DEF SeekWait, SeekCode
<1>14. CASE Restore
  BY <1>1, <1>14 DEF Restore, Record, When, SeekCode
<1>15. CASE SeeError
  BY <1>15 DEF SeeError
<1>16. CASE Recover
  BY <1>1, <1>16 DEF Recover, Record, When
<1> QED BY <1>2, <1>3, <1>4, <1>5, <1>6, <1>7, <1>8, <1>9, <1>10, <1>11, <1>12, <1>13, <1>14,
           <1>15, <1>16 DEF Main, Handle, Watcher

\* A new thread finds no command and no pause of the song before it.
LEMMA MainPause ==
    ASSUME TypeOK, ThreadInv, StateInv, PauseInv, Main \/ Watcher,
           {"stale", "overwritten", "carried"} \cap accidents' = {}
    PROVE  PauseInv'
<1>1. CASE Start
  <2>1. \A t \in Threads : thr[t] = "dead"
    BY <1>1 DEF Start, ThreadInv, Alive
  <2>2. CASE song = "MEDIAPLAYER"
    BY <1>1, <2>1, <2>2 DEF Start, PauseInv, Polls
  <2>3. CASE song # "MEDIAPLAYER"
    <3>1. PICK t \in Threads : thr' = [thr EXCEPT ![t] = IF song = "SOX" THEN "soxStart"
                                                                       ELSE "timStart"]
      BY <1>1, <2>3 DEF Start
    <3>2. /\ thr'[t] = IF song = "SOX" THEN "soxStart" ELSE "timStart"
          /\ \A u \in Threads : u # t => thr'[u] = "dead"
      BY <2>1, <3>1 DEF TypeOK
    <3>3. /\ state' = "LOADING" /\ pc' = "idle" /\ mediaBackendFormat' = song
          /\ UNCHANGED <<droid_rc, play_pause_flag, oldstate>>
      BY <1>1, <2>3 DEF Start, native
    <3>4. song = "TIMIDITY" => droid_rc = "none" /\ ~play_pause_flag
      BY <1>1, <2>3 DEF Start, Record, When
    <3>5. song \in {"TIMIDITY", "SOX"}
      BY <2>3 DEF TypeOK, AllFormats
    <3>6. ASSUME NEW u \in Threads, thr'[u] \in Polls PROVE PauseAt("timStart")' /\ thr'[u] = "timStart"
      <4>1. song = "TIMIDITY" /\ thr'[u] = "timStart"
        BY <3>2, <3>5, <3>6 DEF Polls
      <4> QED BY <3>3, <3>4, <4>1 DEF PauseAt, SeekCode
    <3> QED BY <3>6 DEF PauseInv
  <2> QED BY <2>2, <2>3
<1>2. CASE ~Start
  <2>1. thr' = thr
    BY <1>2 DEF Main, Handle, CallPlay, CallStop, CallPause, CallSeek, Completed, Stable,
       StopCheck, ReqStop, StopBackend, WaitForStop, Refused, Fail, PauseTest, Pausing,
       TogglePost, Resumed, Seeking, SeekPost, SeekWait, Restore, Watcher, SeeError, Recover
  <2>2. ASSUME NEW u \in Threads, thr'[u] \in Polls PROVE PauseAt(thr[u])'
    <3>1. PICK c : c = thr[u]
      OBVIOUS
    <3>2. c \in Polls /\ PauseAt(c)
      BY <2>1, <2>2, <3>1 DEF PauseInv
    <3>3. {"stale", "overwritten"} \cap accidents' = {}
      OBVIOUS
    <3>4. thr'[u] = c /\ PauseAt(c)'
      BY <2>2, <3>1, <3>2, <3>3, MainPauseAt
    <3> QED BY <3>4 DEF PauseAt
  <2> QED BY <2>2 DEF PauseInv
<1> QED BY <1>1, <1>2

PauseHeld == {"stale", "overwritten", "carried"} \cap accidents = {} => PauseInv

LEMMA NextPauseHeld ==
    TypeOK /\ ThreadInv /\ StateHeld /\ PauseHeld /\ [Next]_vars => PauseHeld'
<1> SUFFICES ASSUME TypeOK, ThreadInv, StateHeld, PauseHeld, [Next]_vars,
                    {"stale", "overwritten", "carried"} \cap accidents' = {}
             PROVE  PauseInv'
  BY DEF PauseHeld
<1>1. StateInv /\ PauseInv
  BY AccidentsStay DEF StateHeld, PauseHeld
<1>2. CASE UNCHANGED vars
  BY <1>1, <1>2 DEF vars, java, native, main, PauseInv, PauseAt, WillPause, Wanted
<1> QED BY <1>1, <1>2, MainPause, ThreadPause DEF Next

\* For any threads, songs and commands: whenever the main thread is free and the
\* slot is empty, a song of TiMidity is paused exactly if the state is PAUSED,
\* unless a command was written over, one was carried into the song or a stale
\* state was written over.
THEOREM PauseHolds == Spec => []PauseAgrees
<1>1. TypeOK /\ StateHeld /\ PauseHeld => PauseAgrees
  <2> SUFFICES ASSUME TypeOK, StateInv, PauseInv, pc = "idle", droid_rc = "none",
                      NEW t \in Threads, thr[t] = "midi"
               PROVE  play_pause_flag <=> state = "PAUSED"
    BY DEF StateHeld, PauseHeld, PauseAgrees, Without
  <2>1. PauseAt("midi")
    BY DEF PauseInv, Polls
  <2>2. state # "SEEKING" /\ play_pause_flag \in BOOLEAN
    BY DEF StateInv, SeekCode, TypeOK
  <2>3. WillPause <=> play_pause_flag
    BY <2>2 DEF WillPause
  <2> QED BY <2>1, <2>2, <2>3 DEF PauseAt, Wanted
<1>2. Init => StateHeld /\ PauseHeld
  BY InitStateInv, InitPauseInv DEF StateHeld, PauseHeld
<1> QED BY <1>1, <1>2, NextStateHeld, NextPauseHeld, Typing, OnlyPlayThread, PTL DEF Spec
-----------------------------------------------------------------------------
(***************************************************************************)
(* Stop, and what the handlers wait for.                                   *)
(*                                                                         *)
(* That a stop is kept is not inductive by itself: a thread must be known  *)
(* to be past its start before it can be told, the way it is told is the   *)
(* one of its backend, and every other state in which a stop is over has   *)
(* to tell where the thread can still be.                                  *)
(***************************************************************************)
TimidityThread == {"timStart", "timEntry"} \cup TimidityCode
SoxThread == {"soxStart"} \cup SoxCode

StopInv ==
    /\ \A t \in Threads : thr[t] \in {"timStart", "soxStart"} => state = "LOADING"
    /\ \A t \in Threads : Alive(t) =>
          thr[t] \in (IF mediaBackendFormat = "TIMIDITY" THEN TimidityThread ELSE SoxThread)
    /\ state = "IDLE" => \A t \in Threads : Alive(t) => thr[t] \in {"return", "tail", "finish"}
    /\ state = "ERROR" => mediaBackendFormat # "MEDIAPLAYER" /\ \A t \in Threads : ~Alive(t)
    /\ state = "STOPPING" => \E t \in Threads : thr[t] \in {"soxSilence", "soxIdle"}
    /\ state = "REQSTOP" /\ pc # "stopBackend" => \E t \in Threads : Ending(t)
    /\ pc \in {"stopBackend", "join"} => ~isActive /\ state # "LOADING"
    /\ pc = "stopCheck" /\ job = "play" => state # "LOADING"

LEMMA InitStopInv == Init => StopInv
BY DEF Init, StopInv, Alive, isActive

\* A thread that was told to stop stays told until it has written the state, the
\* poll of play_midi_file and soxPlay's reset of stopSox excepted.
LEMMA ThreadStop ==
    ASSUME NEW t \in Threads, TypeOK, ThreadInv, StateInv, StopInv, Thread(t),
           "ignored" \notin accidents'
    PROVE  StopInv'
<1> DEFINE old == thr[t]
           new == thr'[t]
<1>1. /\ \A u \in Threads \ {t} : thr[u] = "dead" /\ thr'[u] = "dead"
      /\ mediaBackendFormat # "MEDIAPLAYER"
      /\ UNCHANGED <<pc, job, mediaBackendFormat>>
  BY Alone
<1>2. thr \in [Threads -> Code \cup {"dead"}] /\ old # "stopping" /\ droid_rc \in Posts
  BY DEF TypeOK, StateInv
<1>3. \A c : Goto(t, c) => new = c
  BY <1>2 DEF Goto
<1>4. thr' = thr => new = old
  OBVIOUS
<1>5. old \in {"tail", "finish"} => state = "IDLE"
  BY DEF StateInv
<1> HIDE DEF old, new
<1>6. /\ thr[t] = old /\ thr'[t] = new
      /\ \A u \in Threads : u # t => thr[u] = "dead" /\ thr'[u] = "dead"
  BY <1>1 DEF old, new
<1>7. /\ old \in {"timStart", "soxStart"} => state = "LOADING"
      /\ old \in (IF mediaBackendFormat = "TIMIDITY" THEN TimidityThread ELSE SoxThread)
      /\ state = "IDLE" => old \in {"return", "tail", "finish"}
      /\ state # "ERROR"
      /\ state = "STOPPING" => old \in {"soxSilence", "soxIdle"}
      /\ state = "REQSTOP" /\ pc # "stopBackend" => Ending(t)
  BY <1>6, ThreadStep DEF StopInv, Alive, Ending
<1>8. /\ new \notin {"timStart", "soxStart"}
      /\ new # "dead" =>
            new \in (IF mediaBackendFormat = "TIMIDITY" THEN TimidityThread ELSE SoxThread)
      /\ state' = "IDLE" => new \in {"return", "tail", "finish", "dead"}
      /\ state' = "ERROR" => new = "dead"
      /\ state' = "STOPPING" => new \in {"soxSilence", "soxIdle"}
      /\ state' = "REQSTOP" => state = "REQSTOP" /\ (Ending(t) => Ending(t)')
      /\ state' \in {"LOADING", "PLAYING", "PAUSED", "SEEKING"} => state \in {state', "LOADING"}
      /\ state' = "LOADING" => state = "LOADING"
  <2> USE DEF Ending, TimidityThread, SoxThread, TimidityCode, SoxCode
  <2>1. CASE TimStart(t)
    BY <1>3, <1>7, <2>1 DEF TimStart, old
  <2>2. CASE TimEntry(t)
    BY <1>3, <1>6, <1>7, <2>2 DEF TimEntry, Record, When
  <2>3. CASE LoadPoll(t)
    BY <1>3, <1>4, <1>6, <1>7, <2>3 DEF LoadPoll
  <2>4. CASE Load(t)
    BY <1>3, <1>6, <1>7, <2>4 DEF Load
  <2>5. CASE Midi(t)
    BY <1>3, <1>4, <1>6, <1>7, <2>5 DEF Midi
  <2>6. CASE LastEvent(t)
    BY <1>3, <1>6, <1>7, <2>6 DEF LastEvent
  <2>7. CASE Drain(t)
    BY <1>3, <1>4, <1>6, <1>7, <2>7 DEF Drain
  <2>8. CASE PlayEnd(t) \/ FinishAE(t)
    BY <1>3, <1>6, <1>7, <2>8 DEF PlayEnd, FinishAE
  <2>9. CASE Tail(t) \/ Finish(t)
    BY <1>2, <1>3, <1>5, <1>6, <1>7, <2>9 DEF Tail, Finish
  <2>10. CASE SoxStart(t)
    BY <1>3, <1>6, <1>7, <2>10 DEF SoxStart
  <2>11. CASE SoxOpen(t)
    BY <1>3, <1>6, <1>7, <2>11 DEF SoxOpen, Record, When
  <2>12. CASE SoxWrite(t)
    BY <1>3, <1>6, <1>7, <2>12 DEF SoxWrite
  <2>13. CASE SoxUpdate(t)
    BY <1>3, <1>6, <1>7, <2>13 DEF SoxUpdate
  <2>14. CASE SoxOver(t) \/ SoxError(t)
    BY <1>3, <1>6, <1>7, <2>14 DEF SoxOver, SoxError
  <2> QED BY <2>1, <2>2, <2>3, <2>4, <2>5, <2>6, <2>7, <2>8, <2>9, <2>10, <2>11, <2>12,
             <2>13, <2>14 DEF Thread, Timidity, Sox
<1>9. state' = "REQSTOP" /\ pc # "stopBackend" => Ending(t)'
  BY <1>7, <1>8
<1> QED BY <1>1, <1>6, <1>8, <1>9 DEF StopInv, Alive, isActive

\* The main thread tells the thread in the way of its backend, and does not write
\* over a command that was not read.
LEMMA MainStop ==
    ASSUME TypeOK, ThreadInv, StateInv, StopInv, Main \/ Watcher,
           "stale" \notin accidents', "overwritten" \notin accidents'
    PROVE  StopInv'
<1> USE DEF java, native, main, isActive
<1>0. ASSUME UNCHANGED <<state, mediaBackendFormat, thr>>,
             droid_rc = "stop" => droid_rc' = "stop", stopSox => stopSox',
             pc # "stopBackend",
             pc' \in {"join", "stopCheck"} => pc' = pc /\ job' = job,
             pc' # "stopBackend"
      PROVE  StopInv'
  BY <1>0 DEF StopInv, Alive, Ending
<1>1. CASE CallPlay \/ CallStop \/ CallPause \/ CallSeek
  BY <1>1 DEF CallPlay, CallStop, CallPause, CallSeek, StopInv, Alive, Ending
<1>2. CASE Stable
  BY <1>2 DEF Stable, StopInv, Alive, Ending
<1>3. CASE StopCheck
  BY <1>3 DEF StopCheck, AfterStop, StopInv, Alive, Ending
<1>4. CASE ReqStop
  <2>1. /\ state' = "REQSTOP" /\ pc' = "stopBackend"
        /\ UNCHANGED <<mediaBackendFormat, thr>> /\ isActive
    BY <1>4 DEF ReqStop, Record, When
  <2> QED BY <2>1 DEF StopInv, Alive
<1>5. CASE StopBackend
  <2>1. /\ pc = "stopBackend" /\ pc' \in {"idle", "join"}
        /\ UNCHANGED <<mediaBackendFormat, thr, job>>
    BY <1>5 DEF StopBackend, AfterStop
  <2>2. CASE mediaBackendFormat = "MEDIAPLAYER"
    <3>1. state' = "IDLE"
      BY <1>5, <2>2 DEF StopBackend
    <3> QED BY <2>1, <2>2, <3>1 DEF StopInv, ThreadInv, Alive
  <2>3. CASE mediaBackendFormat # "MEDIAPLAYER"
    <3>1. UNCHANGED state
      BY <1>5, <2>3 DEF StopBackend
    <3>2. state = "REQSTOP" => \E t \in Threads : Ending(t)'
      <4> SUFFICES ASSUME state = "REQSTOP" PROVE \E t \in Threads : Ending(t)'
        OBVIOUS
      <4>1. PICK t \in Threads : Alive(t)
        BY <2>3 DEF StateInv
      <4>2. /\ thr'[t] = thr[t] /\ thr[t] \notin {"timStart", "soxStart"}
            /\ thr[t] \in (IF mediaBackendFormat = "TIMIDITY" THEN TimidityThread ELSE SoxThread)
        BY <2>1, <4>1 DEF StopInv
      <4>3. CASE mediaBackendFormat = "SOX"
        <5>1. stopSox'
          BY <1>5, <4>3 DEF StopBackend
        <5> QED BY <4>2, <4>3, <5>1 DEF Ending, SoxThread, SoxCode
      <4>4. CASE mediaBackendFormat = "TIMIDITY"
        <5>1. Post("stop") /\ Record(PostAccidents)
          BY <1>5, <4>4 DEF StopBackend
        <5>2. droid_rc' = "stop"
          BY <5>1, Posted
        <5> QED BY <4>2, <4>4, <5>2 DEF Ending, TimidityThread, TimidityCode
      <4> QED BY <2>3, <4>3, <4>4 DEF TypeOK, AllFormats
    <3> QED BY <2>1, <2>3, <3>1, <3>2 DEF StopInv, Alive
  <2> QED BY <2>2, <2>3
<1>6. CASE WaitForStop \/ Refused(-1) \/ Refused(-9)
  BY <1>0, <1>6 DEF WaitForStop, Refused
<1>7. CASE Start
  <2>1. \A t \in Threads : thr[t] = "dead"
    BY <1>7 DEF Start, ThreadInv, Alive
  <2>2. CASE song = "MEDIAPLAYER"
    <3>1. /\ state' \in {"PLAYING", "LOADING"} /\ pc' = "idle" /\ UNCHANGED thr
      BY <1>7, <2>2 DEF Start
    <3> QED BY <2>1, <3>1 DEF StopInv, Alive
  <2>3. CASE song # "MEDIAPLAYER"
    <3>1. PICK t \in Threads : thr' = [thr EXCEPT ![t] = IF song = "SOX" THEN "soxStart"
                                                                       ELSE "timStart"]
      BY <1>7, <2>3 DEF Start
    <3>2. /\ thr'[t] = IF song = "SOX" THEN "soxStart" ELSE "timStart"
          /\ \A u \in Threads : u # t => thr'[u] = "dead"
      BY <2>1, <3>1 DEF TypeOK
    <3>3. state' = "LOADING" /\ pc' = "idle" /\ mediaBackendFormat' = song
      BY <1>7, <2>3 DEF Start
    <3>4. song \in {"TIMIDITY", "SOX"}
      BY <2>3 DEF TypeOK, AllFormats
    <3>5. \A u \in Threads : Alive(u)' =>
             thr'[u] \in (IF mediaBackendFormat' = "TIMIDITY" THEN TimidityThread ELSE SoxThread)
      BY <3>2, <3>3, <3>4 DEF Alive, TimidityThread, SoxThread
    <3> QED BY <3>3, <3>5 DEF StopInv
  <2> QED BY <2>2, <2>3
<1>8. CASE Fail
  BY <1>8 DEF Fail, StopInv, ThreadInv, Alive
<1>9. CASE PauseTest
  BY <1>0, <1>9 DEF PauseTest
<1>10. CASE Pausing \/ Resumed
  <2>1. /\ state \in {"PLAYING", "PAUSED"} /\ state' \in {"PLAYING", "PAUSED"}
        /\ pc' \in {"pausePost", "idle"} /\ UNCHANGED <<mediaBackendFormat, thr>>
    BY <1>10 DEF Pausing, Resumed, Record, When
  <2> QED BY <2>1 DEF StopInv, Alive
<1>11. CASE TogglePost
  <2>1. /\ UNCHANGED <<state, mediaBackendFormat, thr, stopSox>>
        /\ pc \in {"pausePost", "resumePost"} /\ pc' \in {"idle", "resumed"}
    BY <1>11 DEF TogglePost, Post
  <2>2. droid_rc = "stop" => droid_rc' = "stop"
    BY <1>11, Posted DEF TogglePost
  <2> QED BY <1>0, <2>1, <2>2
<1>12. CASE Seeking
  <2>1. /\ isActive /\ state' = "SEEKING" /\ pc' = "seekPost"
        /\ UNCHANGED <<mediaBackendFormat, thr>>
    BY <1>12 DEF Seeking, Record, When
  <2> QED BY <2>1 DEF StopInv, Alive
<1>13. CASE SeekPost
  <2>1. /\ UNCHANGED <<state, mediaBackendFormat, thr, stopSox>>
        /\ pc = "seekPost" /\ pc' \in {"seekWait", "restore"}
    BY <1>13 DEF SeekPost, Post
  <2>2. droid_rc = "stop" => droid_rc' = "stop"
    BY <1>13, Posted DEF SeekPost
  <2> QED BY <1>0, <2>1, <2>2
<1>14. CASE SeekWait
  BY <1>0, <1>14 DEF SeekWait
<1>15. CASE Restore
  <2>1. /\ state = "SEEKING" /\ state' = oldstate /\ pc = "restore" /\ pc' = "idle"
        /\ UNCHANGED <<mediaBackendFormat, thr>>
    BY <1>15 DEF Restore, Record, When
  <2>2. oldstate \in {"PLAYING", "PAUSED"}
    BY <2>1 DEF StateInv, SeekCode
  <2> QED BY <2>1, <2>2 DEF StopInv, Alive
<1>16. CASE Completed
  BY <1>16 DEF Completed, StateInv, StopInv, ThreadInv, Alive
<1>17. CASE SeeError
  BY <1>17 DEF SeeError, StopInv, Alive, Ending
<1>18. CASE Recover
  <2>1. /\ state = "ERROR" /\ state' = "IDLE"
        /\ UNCHANGED <<pc, job, mediaBackendFormat, thr>>
    BY <1>18 DEF Recover, Record, When
  <2> QED BY <2>1 DEF StopInv, Alive
<1> QED BY <1>1, <1>2, <1>3, <1>4, <1>5, <1>6, <1>7, <1>8, <1>9, <1>10, <1>11, <1>12, <1>13,
           <1>14, <1>15, <1>16, <1>17, <1>18 DEF Main, Handle, Watcher

StopHeld == Without({"stale", "ignored", "overwritten"}) => StopInv

LEMMA NextStopHeld ==
    TypeOK /\ ThreadInv /\ StateHeld /\ StopHeld /\ [Next]_vars => StopHeld'
<1> SUFFICES ASSUME TypeOK, ThreadInv, StateHeld, StopHeld, [Next]_vars,
                    {"stale", "ignored", "overwritten"} \cap accidents' = {}
             PROVE  StopInv'
  BY DEF StopHeld, Without
<1>1. StateInv /\ StopInv
  BY AccidentsStay DEF StateHeld, StopHeld, Without
<1>2. CASE UNCHANGED vars
  BY <1>1, <1>2 DEF vars, java, native, main, StopInv, Alive, Ending, isActive
<1> QED BY <1>1, <1>2, MainStop, ThreadStop DEF Next

\* For any threads, songs and commands: a stop that was asked for has a thread that
\* was told and has not left yet, unless the poll of play_midi_file took it, soxPlay
\* reset it, another command was written over it or a stale state was written over.
THEOREM StopKept == Spec => []StopIsKept
<1>1. StopHeld => StopIsKept
  BY DEF StopHeld, StopInv, StopIsKept
<1>2. Init => StateHeld /\ StopHeld
  BY InitStateInv, InitStopInv DEF StateHeld, StopHeld
<1> QED BY <1>1, <1>2, NextStateHeld, NextStopHeld, Typing, OnlyPlayThread, PTL DEF Spec

\* The command waitUntilReady waits for is read by the thread that found it, or
\* the thread left it unread.
ReadHeld == Without({"unread"}) /\ pc = "seekWait" => droid_rc = "none" \/ Listening

LEMMA NextReadHeld == TypeOK /\ ThreadInv /\ ReadHeld /\ [Next]_vars => ReadHeld'
<1> SUFFICES ASSUME TypeOK, ThreadInv, ReadHeld, [Next]_vars,
                    "unread" \notin accidents', pc' = "seekWait"
             PROVE  droid_rc' = "none" \/ Listening'
  BY DEF ReadHeld, Without
<1>1. pc = "seekWait" => droid_rc = "none" \/ Listening
  BY AccidentsStay DEF ReadHeld, Without
<1>2. CASE UNCHANGED vars
  BY <1>1, <1>2 DEF vars, native, main, Listening
<1>3. CASE Main
  <2>1. SeekPost
    BY <1>3 DEF Main, Handle, CallPlay, CallStop, CallPause, CallSeek, Completed, Stable,
       StopCheck, ReqStop, StopBackend, AfterStop, WaitForStop, Refused, Start, Fail, PauseTest,
       Pausing, TogglePost, Resumed, Seeking, SeekWait, Restore, main
  <2>2. Record(PostAccidents) /\ UNCHANGED thr
    BY <2>1 DEF SeekPost
  <2> QED BY <2>2 DEF Record, PostAccidents, When, Listening
<1>4. CASE Watcher
  BY <1>1, <1>4 DEF Watcher, SeeError, Recover, native, main, Listening
<1>5. ASSUME NEW t \in Threads, Thread(t) PROVE droid_rc' = "none" \/ Listening'
  <2>1. /\ pc = "seekWait" /\ \A u \in Threads \ {t} : thr[u] = "dead"
    BY <1>5, Alone
  <2>2. thr \in [Threads -> Code \cup {"dead"}]
    BY DEF TypeOK
  <2>3. \A c : Goto(t, c) => thr'[t] = c
    BY <2>2 DEF Goto
  <2>4. droid_rc = "none" \/ thr[t] \in Polls
    BY <1>1, <2>1 DEF Listening, Polls
  <2>5. CASE thr[t] \in Polls
    <3>1. TimStart(t) \/ TimEntry(t) \/ LoadPoll(t) \/ Load(t) \/ Midi(t) \/ LastEvent(t) \/ Drain(t)
      BY <1>5, <2>5 DEF Polls, Thread, Timidity, Sox, PlayEnd, FinishAE, Tail, Finish,
         SoxStart, SoxOpen, SoxWrite, SoxUpdate, SoxOver, SoxError
    <3>2. droid_rc' = "none" \/ thr'[t] \in Polls
      BY <2>3, <3>1 DEF Polls, TimStart, TimEntry, LoadPoll, Load, Midi, LastEvent, Drain,
         Record, When
    <3> QED BY <3>2 DEF Listening
  <2>6. CASE thr[t] \notin Polls
    <3>1. droid_rc' = droid_rc
      BY <1>5, <2>6 DEF Polls, Thread, Timidity, Sox, TimStart, TimEntry, LoadPoll, Load, Midi,
         LastEvent, Drain, PlayEnd, FinishAE, Tail, Finish, native,
         SoxStart, SoxOpen, SoxWrite, SoxUpdate, SoxOver, SoxError, SoxUnchanged
    <3> QED BY <2>4, <2>6, <3>1
  <2> QED BY <2>5, <2>6
<1> QED BY <1>2, <1>3, <1>4, <1>5 DEF Next

\* For any threads, songs and commands: what a handler of the main thread waits for
\* is on its way, unless a command or a stop was lost, MediaPlayer could not be
\* prepared or a stale state was written over.
THEOREM Served == Spec => []NeverFrozen
<1>1. TypeOK /\ ThreadInv /\ StateHeld /\ StopHeld /\ ReadHeld => NeverFrozen
  <2> SUFFICES ASSUME TypeOK, ThreadInv, StateInv, StopInv, ReadHeld,
                      Without({"stale", "unread", "prepare", "ignored", "overwritten"})
               PROVE  NeverFrozen
    BY DEF StateHeld, StopHeld, Without, NeverFrozen
  <2>1. ASSUME pc = "stable"
        PROVE  \/ state \in {"IDLE", "PAUSED", "PLAYING", "ERROR"}
               \/ \E t \in Threads : Ending(t) \/ thr[t] \in {"timStart", "soxStart"}
    <3>1. CASE state = "LOADING"
      BY <3>1 DEF StateInv, Without
    <3>2. CASE state = "REQSTOP"
      BY <2>1, <3>2 DEF StopInv
    <3>3. CASE state = "STOPPING"
      BY <3>3 DEF StopInv, Ending
    <3>4. state # "SEEKING"
      BY <2>1 DEF StateInv, SeekCode
    <3> QED BY <3>1, <3>2, <3>3, <3>4 DEF TypeOK, States
  <2>2. ASSUME pc = "join", NEW t \in Threads, Alive(t) PROVE Ending(t)
    <3>1. \A u \in Threads : Alive(u) => u = t
      BY <2>2 DEF ThreadInv
    <3>2. state \in {"IDLE", "ERROR", "STOPPING", "REQSTOP"}
      BY <2>2 DEF StopInv, isActive, TypeOK, States
    <3>3. CASE state = "REQSTOP"
      <4>1. PICK u \in Threads : Ending(u)
        BY <2>2, <3>3 DEF StopInv
      <4>2. Alive(u)
        BY <4>1 DEF Ending, Alive
      <4> QED BY <3>1, <4>1, <4>2
    <3>4. CASE state = "STOPPING"
      <4>1. PICK u \in Threads : thr[u] \in {"soxSilence", "soxIdle"}
        BY <3>4 DEF StopInv
      <4>2. u = t
        BY <3>1, <4>1 DEF Alive
      <4> QED BY <4>1, <4>2 DEF Ending
    <3>5. CASE state = "IDLE"
      BY <2>2, <3>5 DEF StopInv, Ending
    <3>6. CASE state = "ERROR"
      BY <2>2, <3>6 DEF StopInv
    <3> QED BY <3>2, <3>3, <3>4, <3>5, <3>6
  <2>3. ASSUME pc = "join", mediaBackendFormat = "MEDIAPLAYER" PROVE state = "IDLE"
    <3>1. \A t \in Threads : ~Alive(t)
      BY <2>3 DEF ThreadInv
    <3>2. state \in {"IDLE", "ERROR", "STOPPING", "REQSTOP"}
      BY <2>3 DEF StopInv, isActive, TypeOK, States
    <3> QED BY <2>3, <3>1, <3>2 DEF StopInv, Alive, Ending
  <2>4. pc = "seekWait" => droid_rc = "none" \/ Listening
    BY DEF ReadHeld, Without
  <2> QED BY <2>1, <2>2, <2>3, <2>4 DEF NeverFrozen
<1>2. Init => StateHeld /\ StopHeld /\ ReadHeld
  BY InitStateInv, InitStopInv DEF StateHeld, StopHeld, ReadHeld, Init
<1> QED BY <1>1, <1>2, NextStateHeld, NextStopHeld, NextReadHeld, Typing, OnlyPlayThread,
           PTL DEF Spec
=============================================================================
