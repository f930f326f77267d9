------------------------------ MODULE Playback ------------------------------
(***************************************************************************)
(* JNIHandler: the playback state machine shared, without a lock, by the   *)
(* application's main thread (MusicService's broadcast receiver), by the   *)
(* play thread of the current song and by the thread that watches it.      *)
(*                                                                         *)
(* Every read and every write of the shared variables by which two threads *)
(* interact is a step of its own.  The command slot is taken as atomic     *)
(* here, with what module Mailbox shows of it: a command posted over one   *)
(* that was not read replaces it or is lost.  A song is represented by the *)
(* backend that plays it.                                                  *)
(***************************************************************************)
EXTENDS Integers, FiniteSets

CONSTANTS
    Songs,      \* the backends of the songs that are played
    Commands,   \* the commands the application sends
    Threads     \* the play threads there may be at the same time

AllFormats == {"MEDIAPLAYER", "TIMIDITY", "SOX"}
AllCommands == {"play", "pause", "seek", "stop"}

ASSUME SongsAssumption == Songs \subseteq AllFormats
ASSUME CommandsAssumption == Commands \subseteq AllCommands
ASSUME ThreadsAssumption == "none" \notin Threads

VARIABLES
    state,              \* JNIHandler.state
    mediaBackendFormat, \* JNIHandler.mediaBackendFormat
    playThread,         \* JNIHandler.playThread
    listener,           \* mMediaPlayer plays and has its completion listener
    thr,                \* where each play thread is
    recovering,         \* a watcher saw ERROR and is about to reset the state
    droid_rc,           \* the command slot of TiMidity
    play_pause_flag,    \* TiMidity is paused
    stopSox, jumps,     \* SoX was asked to stop, to seek
    pc,                 \* where the main thread is
    job,                \* the command it handles
    song,               \* the song it is to play
    oldstate,           \* the state it read
    accidents           \* history: the races lost so far

java == <<state, mediaBackendFormat, playThread, listener>>
native == <<droid_rc, play_pause_flag, stopSox, jumps>>
main == <<pc, job, song, oldstate>>
vars == <<java, thr, recovering, native, main, accidents>>

States == {"IDLE", "LOADING", "PLAYING", "PAUSED", "SEEKING", "REQSTOP",
           "STOPPING", "ERROR"}
TimidityCode == {"load", "midi", "drain", "playEnd", "return", "tail",
                 "stopping", "finish"}
SoxCode == {"soxOpen", "soxWrite", "soxUpdate", "soxOver", "soxStopping",
            "soxSilence", "soxIdle", "soxError"}
Code == {"timStart", "timEntry", "soxStart"} \cup TimidityCode \cup SoxCode
MainCode == {"idle", "stable", "stopCheck", "reqStop", "stopBackend", "join",
             "start", "fail", "pauseTest", "pausePost",
             "pausing", "resumePost", "resumed", "seeking", "seekPost",
             "seekWait", "restore"}
Posts == {"none", "toggle", "jump", "stop"}
Accidents == {"stale", "overwritten", "unread", "carried", "ignored",
              "prepare"}

\* Faulty variant of isActive: a paused song is not taken for active.
isActiveNotPaused == state \in {"PLAYING", "SEEKING"}

\* JNIHandler.isActive; PAUSING and RESUMING are never assigned.
isActive == state \in {"PLAYING", "PAUSED", "SEEKING"}
Alive(t) == thr[t] # "dead"

TypeOK ==
    /\ state \in States
    /\ mediaBackendFormat \in AllFormats
    /\ playThread \in Threads \cup {"none"}
    /\ listener \in BOOLEAN
    /\ thr \in [Threads -> Code \cup {"dead"}]
    /\ recovering \in BOOLEAN
    /\ droid_rc \in Posts
    /\ play_pause_flag \in BOOLEAN
    /\ stopSox \in BOOLEAN
    /\ jumps \in BOOLEAN
    /\ pc \in MainCode
    /\ job \in AllCommands \cup {"fail"}
    /\ song \in AllFormats
    /\ oldstate \in States
    /\ accidents \in SUBSET Accidents

\* After JNIHandler.init.
Init ==
    /\ state = "IDLE"
    /\ mediaBackendFormat = "MEDIAPLAYER"
    /\ playThread = "none"
    /\ listener = FALSE
    /\ thr = [t \in Threads |-> "dead"]
    /\ recovering = FALSE
    /\ droid_rc = "none"
    /\ play_pause_flag = FALSE
    /\ stopSox = FALSE
    /\ jumps = FALSE
    /\ pc = "idle"
    /\ job = "stop"
    /\ song = "MEDIAPLAYER"
    /\ oldstate = "IDLE"
    /\ accidents = {}

Record(kinds) == accidents' = accidents \cup kinds
When(kind, condition) == IF condition THEN {kind} ELSE {}

\* A thread that still polls the command slot.
Polls == {"timStart", "timEntry", "load", "midi", "drain"}
Listening == \E t \in Threads : thr[t] \in Polls

\* controlTimidity: the command is written over the one in the slot, or lost
\* when ctl_read is just clearing that one.
Post(cmd) == /\ droid_rc' \in (IF droid_rc = "none" THEN {cmd} ELSE {cmd, droid_rc})
             /\ UNCHANGED <<play_pause_flag, stopSox, jumps>>
PostAccidents == When("overwritten", droid_rc # "none")
                   \cup When("unread", ~Listening)

----------------------------------------------------------------------------
(* The main thread: stop and play                                          *)

\* MusicService.play() reached by the commands play, next and previous.
CallPlay ==
    /\ pc = "idle" /\ "play" \in Commands
    /\ job' = "play"
    /\ song' \in Songs
    /\ pc' = "stable"
    /\ UNCHANGED <<java, thr, recovering, native, oldstate, accidents>>

\* Faulty variant of Stable: does not take a playing song for stable.
StableNotPlaying ==
    /\ pc = "stable"
    /\ state \in {"IDLE", "PAUSED"}
    /\ pc' = "stopCheck"
    /\ UNCHANGED <<java, thr, recovering, native, job, song, oldstate, accidents>>

\* waitForStable
Stable ==
    /\ pc = "stable"
    /\ state \in {"IDLE", "PAUSED", "PLAYING"}
    /\ pc' = "stopCheck"
    /\ UNCHANGED <<java, thr, recovering, native, job, song, oldstate, accidents>>

\* The command stop.
CallStop ==
    /\ pc = "idle" /\ "stop" \in Commands
    /\ job' = "stop"
    /\ pc' = "stopCheck"
    /\ UNCHANGED <<java, thr, recovering, native, song, oldstate, accidents>>

AfterStop == IF job = "play" THEN "join" ELSE "idle"

\* MusicService.stop() does nothing unless isActive().
StopCheck ==
    /\ pc = "stopCheck"
    /\ pc' = IF isActive THEN "reqStop" ELSE AfterStop
    /\ UNCHANGED <<java, thr, recovering, native, job, song, oldstate, accidents>>

\* JNIHandler.stop(): state = STATE_REQSTOP
ReqStop ==
    /\ pc = "reqStop"
    /\ state' = "REQSTOP"
    /\ pc' = "stopBackend"
    /\ Record(When("stale", ~isActive))
    /\ UNCHANGED <<mediaBackendFormat, playThread, listener, thr,
                   recovering, native, job, song, oldstate>>

StopBackend ==
    /\ pc = "stopBackend"
    /\ pc' = AfterStop
    /\ \/ /\ mediaBackendFormat = "MEDIAPLAYER"
          /\ listener' = FALSE
          /\ state' = "IDLE"
          /\ UNCHANGED <<native, accidents>>
       \/ /\ mediaBackendFormat = "SOX"
          /\ stopSox' = TRUE
          /\ UNCHANGED <<state, listener, droid_rc, play_pause_flag, jumps, accidents>>
       \/ /\ mediaBackendFormat = "TIMIDITY"
          /\ Post("stop")
          /\ Record(PostAccidents)
          /\ UNCHANGED <<state, listener>>
    /\ UNCHANGED <<mediaBackendFormat, playThread, thr, recovering,
                   job, song, oldstate>>

\* Faulty variant of WaitForStop: waits for the state IDLE, as write_new does.
WaitForIdle ==
    /\ pc = "join"
    /\ state = "IDLE"
    /\ pc' = "start"
    /\ UNCHANGED <<java, thr, recovering, native, job, song, oldstate, accidents>>

\* waitForStop: playThread.join(), or the state IDLE with MediaPlayer.
WaitForStop ==
    /\ pc = "join"
    /\ IF mediaBackendFormat = "MEDIAPLAYER"
       THEN state = "IDLE"
       ELSE playThread \in Threads => ~Alive(playThread)
    /\ pc' = "start"
    /\ UNCHANGED <<java, thr, recovering, native, job, song, oldstate, accidents>>

\* JNIHandler.play returns -1 (no such file) or -9 (the state is not IDLE):
\* MusicService.play() resets the state.
Refused(code) ==
    /\ pc = "start"
    /\ code = -9 => state # "IDLE"
    /\ pc' = "fail"
    /\ UNCHANGED <<java, thr, recovering, native, job, song, oldstate, accidents>>

\* JNIHandler.play: MediaPlayer is prepared and started here, or throws and
\* leaves the state LOADING; the other backends get a thread.
Start ==
    /\ pc = "start"
    /\ state = "IDLE"
    /\ pc' = "idle"
    /\ mediaBackendFormat' = song
    /\ \/ /\ song = "MEDIAPLAYER"
          /\ \E prepared \in BOOLEAN :
                /\ listener' = prepared
                /\ state' = IF prepared THEN "PLAYING" ELSE "LOADING"
                /\ Record(When("prepare", ~prepared))
          /\ UNCHANGED <<playThread, thr>>
       \/ /\ song # "MEDIAPLAYER"
          /\ state' = "LOADING"
          /\ \E t \in Threads :
                /\ ~Alive(t)
                /\ playThread' = t
                /\ thr' = [thr EXCEPT ![t] = IF song = "SOX" THEN "soxStart"
                                                             ELSE "timStart"]
          /\ Record(When("carried", song = "TIMIDITY"
                                      /\ (droid_rc # "none" \/ play_pause_flag)))
          /\ UNCHANGED listener
    /\ UNCHANGED <<recovering, native, job, song, oldstate>>

\* The error branch of MusicService.play() ends with stop().
Fail ==
    /\ pc = "fail"
    /\ state' = "IDLE"
    /\ mediaBackendFormat' = "MEDIAPLAYER"
    /\ job' = "fail"
    /\ pc' = "stopCheck"
    /\ UNCHANGED <<playThread, listener, thr, recovering, native, song,
                   oldstate, accidents>>

----------------------------------------------------------------------------
(* The main thread: pause and seek                                         *)

\* MusicService.pause() and the first test of JNIHandler.pause().
CallPause ==
    /\ pc = "idle" /\ "pause" \in Commands
    /\ state \in {"PLAYING", "PAUSED"}
    /\ job' = "pause"
    /\ pc' = "pauseTest"
    /\ UNCHANGED <<java, thr, recovering, native, song, oldstate, accidents>>

\* The state is read again: PAUSED means resume, anything else means pause.
PauseTest ==
    /\ pc = "pauseTest"
    /\ pc' = IF state = "PAUSED" THEN "resumePost" ELSE "pausing"
    /\ UNCHANGED <<java, thr, recovering, native, job, song, oldstate, accidents>>

\* state = STATE_PAUSED comes before the command, state = STATE_PLAYING after.
Pausing ==
    /\ pc = "pausing"
    /\ state' = "PAUSED"
    /\ pc' = "pausePost"
    /\ Record(When("stale", state # "PLAYING"))
    /\ UNCHANGED <<mediaBackendFormat, playThread, listener, thr,
                   recovering, native, job, song, oldstate>>

TogglePost ==
    /\ \/ pc = "pausePost" /\ pc' = "idle"
       \/ pc = "resumePost" /\ pc' = "resumed"
    /\ IF mediaBackendFormat = "TIMIDITY"
       THEN Post("toggle") /\ Record(PostAccidents)
       ELSE UNCHANGED <<native, accidents>>
    /\ UNCHANGED <<java, thr, recovering, job, song, oldstate>>

Resumed ==
    /\ pc = "resumed"
    /\ state' = "PLAYING"
    /\ pc' = "idle"
    /\ Record(When("stale", state # "PAUSED"))
    /\ UNCHANGED <<mediaBackendFormat, playThread, listener, thr,
                   recovering, native, job, song, oldstate>>

\* The command seek is carried out in whatever state the song is by then: the
\* slider is disabled some time after the song ended.  With MediaPlayer only
\* the player is told.
CallSeek ==
    /\ pc = "idle" /\ "seek" \in Commands
    /\ mediaBackendFormat # "MEDIAPLAYER"
    /\ job' = "seek"
    /\ oldstate' = state
    /\ pc' = "seeking"
    /\ UNCHANGED <<java, thr, recovering, native, song, accidents>>

Seeking ==
    /\ pc = "seeking"
    /\ state' = "SEEKING"
    /\ pc' = "seekPost"
    /\ Record(When("stale", ~isActive \/ state # oldstate))
    /\ UNCHANGED <<mediaBackendFormat, playThread, listener, thr,
                   recovering, native, job, song, oldstate>>

SeekPost ==
    /\ pc = "seekPost"
    /\ IF mediaBackendFormat = "SOX"
       THEN /\ jumps' = TRUE
            /\ pc' = "restore"
            /\ UNCHANGED <<droid_rc, play_pause_flag, stopSox, accidents>>
       ELSE /\ Post("jump")
            /\ pc' = "seekWait"
            /\ Record(PostAccidents)
    /\ UNCHANGED <<java, thr, recovering, job, song, oldstate>>

\* waitUntilReady
SeekWait ==
    /\ pc = "seekWait"
    /\ droid_rc = "none"
    /\ pc' = "restore"
    /\ UNCHANGED <<java, thr, recovering, native, job, song, oldstate, accidents>>

\* Faulty variant of Restore: forgets to write the state back.
NoRestore ==
    /\ pc = "restore"
    /\ pc' = "idle"
    /\ UNCHANGED <<java, thr, recovering, native, job, song, oldstate, accidents>>

\* state = oldstate
Restore ==
    /\ pc = "restore"
    /\ state' = oldstate
    /\ pc' = "idle"
    /\ Record(When("stale", state # "SEEKING"))
    /\ UNCHANGED <<mediaBackendFormat, playThread, listener, thr,
                   recovering, native, job, song, oldstate>>

\* MediaPlayer calls its completion listener on the main thread.
Completed ==
    /\ pc = "idle"
    /\ listener
    /\ listener' = FALSE
    /\ state' = "IDLE"
    /\ UNCHANGED <<mediaBackendFormat, playThread, thr, recovering,
                   native, main, accidents>>

\* The steps by which the main thread goes on with a command.
Handle ==
    \/ Stable \/ StopCheck \/ ReqStop \/ StopBackend \/ WaitForStop
    \/ Refused(-1) \/ Refused(-9) \/ Start \/ Fail
    \/ PauseTest \/ Pausing \/ TogglePost \/ Resumed
    \/ Seeking \/ SeekPost \/ SeekWait \/ Restore

Main == CallPlay \/ CallStop \/ CallPause \/ CallSeek \/ Handle \/ Completed

----------------------------------------------------------------------------
(* The play thread of TiMidity                                             *)

Goto(t, code) == thr' = [thr EXCEPT ![t] = code]
TimidityUnchanged == UNCHANGED <<mediaBackendFormat, playThread, listener,
                                 recovering, stopSox, jumps, main>>
Toggled == IF droid_rc = "toggle" THEN ~play_pause_flag ELSE play_pause_flag

\* The AudioTrack is created, then state = STATE_PLAYING.
TimStart(t) ==
    /\ thr[t] = "timStart"
    /\ state' = "PLAYING"
    /\ Goto(t, "timEntry")
    /\ UNCHANGED <<droid_rc, play_pause_flag, accidents>>
    /\ TimidityUnchanged

\* play_midi_file polls once and, on Android, goes on whatever it got; a
\* toggle has been applied by check_apply_control.
TimEntry(t) ==
    /\ thr[t] = "timEntry"
    /\ Goto(t, "load")
    /\ droid_rc' = "none"
    /\ play_pause_flag' = Toggled
    /\ Record(When("ignored", droid_rc = "stop"))
    /\ UNCHANGED state
    /\ TimidityUnchanged

\* check_apply_control during the loading and the flush before the first
\* event: a stop skips the song, before or after PM_REQ_PLAY_START; a toggle
\* is applied and a jump is dropped.
LoadPoll(t) ==
    /\ thr[t] = "load" /\ droid_rc # "none"
    /\ droid_rc' = "none"
    /\ play_pause_flag' = Toggled
    /\ IF droid_rc = "stop" THEN Goto(t, "return") \/ Goto(t, "playEnd")
                            ELSE UNCHANGED thr
    /\ UNCHANGED <<state, accidents>>
    /\ TimidityUnchanged

\* The file is loaded, or it cannot be read.
Load(t) ==
    /\ thr[t] = "load"
    /\ \/ Goto(t, "midi") /\ UNCHANGED accidents
       \/ Goto(t, "return") /\ Record(When("unread", droid_rc # "none"))
    /\ UNCHANGED <<state, droid_rc, play_pause_flag>>
    /\ TimidityUnchanged

\* Faulty variants of Midi: one takes every toggle for a pause, one takes a
\* stop while paused without ending the song.
MidiPauses(t) ==
    /\ thr[t] = "midi" /\ droid_rc # "none"
    /\ droid_rc' = "none"
    /\ play_pause_flag' = (droid_rc = "toggle" \/ (play_pause_flag /\ droid_rc # "stop"))
    /\ IF droid_rc = "stop" THEN Goto(t, "playEnd") ELSE UNCHANGED thr
    /\ UNCHANGED <<state, accidents>>
    /\ TimidityUnchanged

MidiStopsWhenPlaying(t) ==
    /\ thr[t] = "midi" /\ droid_rc # "none"
    /\ droid_rc' = "none"
    /\ play_pause_flag' = Toggled
    /\ IF droid_rc = "stop" /\ ~play_pause_flag THEN Goto(t, "playEnd") ELSE UNCHANGED thr
    /\ UNCHANGED <<state, accidents>>
    /\ TimidityUnchanged

\* apply_controls, before every buffer and over and over while paused: a stop
\* clears the pause and ends the song, a jump may lead past its end.
Midi(t) ==
    /\ thr[t] = "midi" /\ droid_rc # "none"
    /\ droid_rc' = "none"
    /\ \/ droid_rc = "stop" /\ play_pause_flag' = FALSE /\ Goto(t, "playEnd")
       \/ droid_rc = "toggle" /\ play_pause_flag' = Toggled /\ UNCHANGED thr
       \/ /\ droid_rc = "jump"
          /\ UNCHANGED thr \/ (~play_pause_flag /\ Goto(t, "playEnd"))
          /\ UNCHANGED play_pause_flag
    /\ UNCHANGED <<state, accidents>>
    /\ TimidityUnchanged

\* The last event was played (midi_play_end); a paused song plays no event.
LastEvent(t) ==
    /\ thr[t] = "midi" /\ ~play_pause_flag
    /\ Goto(t, "drain")
    /\ UNCHANGED <<state, droid_rc, play_pause_flag, accidents>>
    /\ TimidityUnchanged

\* aq_flush polls with check_apply_control until the output is played.
Drain(t) ==
    /\ thr[t] = "drain"
    /\ \/ /\ droid_rc # "none"
          /\ droid_rc' = "none"
          /\ play_pause_flag' = Toggled
          /\ IF droid_rc = "stop" THEN Goto(t, "playEnd") ELSE UNCHANGED thr
          /\ UNCHANGED accidents
       \/ /\ Goto(t, "playEnd")
          /\ Record(When("unread", droid_rc # "none"))
          /\ UNCHANGED <<droid_rc, play_pause_flag>>
    /\ UNCHANGED state
    /\ TimidityUnchanged

\* Faulty variant of PlayEnd: stores the value the state had before init.
PlayEndUninit(t) ==
    /\ thr[t] = "playEnd"
    /\ state' = "UNINIT"
    /\ Goto(t, "return")
    /\ UNCHANGED <<droid_rc, play_pause_flag, accidents>>
    /\ TimidityUnchanged

\* PM_REQ_PLAY_END: controlCallback(10), state = STATE_IDLE.
PlayEnd(t) ==
    /\ thr[t] = "playEnd"
    /\ state' = "IDLE"
    /\ Goto(t, "return")
    /\ UNCHANGED <<droid_rc, play_pause_flag, accidents>>
    /\ TimidityUnchanged

\* finishAE, at the end of PM_REQ_PLAY_END and of loadSongTimidity.
FinishAE(t) ==
    /\ thr[t] = "return"
    /\ state' = "IDLE"
    /\ Goto(t, "tail")
    /\ UNCHANGED <<droid_rc, play_pause_flag, accidents>>
    /\ TimidityUnchanged

\* if (state != STATE_IDLE) state = STATE_STOPPING, a test and a store.
Tail(t) ==
    /\ \/ /\ thr[t] = "tail"
          /\ Goto(t, IF state = "IDLE" THEN "finish" ELSE "stopping")
          /\ UNCHANGED state
       \/ /\ thr[t] = "stopping"
          /\ state' = "STOPPING"
          /\ Goto(t, "finish")
    /\ UNCHANGED <<droid_rc, play_pause_flag, accidents>>
    /\ TimidityUnchanged

\* The thread ends; what it does for an export is in module WavExport.
Finish(t) ==
    /\ thr[t] = "finish"
    /\ Goto(t, "dead")
    /\ UNCHANGED <<state, mediaBackendFormat, playThread, listener, recovering,
                   native, main, accidents>>

Timidity(t) ==
    \/ TimStart(t) \/ TimEntry(t) \/ LoadPoll(t) \/ Load(t) \/ Midi(t)
    \/ LastEvent(t) \/ Drain(t) \/ PlayEnd(t) \/ FinishAE(t) \/ Tail(t) \/ Finish(t)

----------------------------------------------------------------------------
(* The play thread of SoX                                                  *)

SoxUnchanged == UNCHANGED <<mediaBackendFormat, playThread, listener,
                            recovering, droid_rc, play_pause_flag, main>>

SoxStart(t) ==
    /\ thr[t] = "soxStart"
    /\ state' = "PLAYING"
    /\ Goto(t, "soxOpen")
    /\ UNCHANGED <<stopSox, jumps, accidents>>
    /\ SoxUnchanged

\* soxPlay clears stopSox, then sets the effects up or finds a bad one.
SoxOpen(t) ==
    /\ thr[t] = "soxOpen"
    /\ stopSox' = FALSE
    /\ Goto(t, "soxWrite") \/ Goto(t, "soxError")
    /\ Record(When("ignored", stopSox /\ state = "REQSTOP"))
    /\ UNCHANGED <<state, jumps>>
    /\ SoxUnchanged

\* buffsox does not return while the state is PAUSED.
SoxWrite(t) ==
    /\ \/ thr[t] = "soxWrite" /\ Goto(t, "soxUpdate")
       \/ thr[t] = "soxSilence" /\ Goto(t, "soxIdle")
    /\ state # "PAUSED"
    /\ UNCHANGED <<state, stopSox, jumps, accidents>>
    /\ SoxUnchanged

\* Faulty variant of SoxUpdate: does not look at stopSox.
SoxUpdateGoesOn(t) ==
    /\ thr[t] = "soxUpdate"
    /\ jumps' = FALSE
    /\ Goto(t, "soxOver") \/ Goto(t, "soxWrite")
    /\ UNCHANGED <<state, stopSox, accidents>>
    /\ SoxUnchanged

\* update_status takes the jump and ends the song when it is to stop; it may
\* also have reached its end.
SoxUpdate(t) ==
    /\ thr[t] = "soxUpdate"
    /\ jumps' = FALSE
    /\ \/ Goto(t, "soxOver")
       \/ ~stopSox /\ Goto(t, "soxWrite")
    /\ UNCHANGED <<state, stopSox, accidents>>
    /\ SoxUnchanged

\* Faulty variant of SoxOver: a song that was stopped does not become IDLE.
SoxOverKeeps(t) ==
    /\ thr[t] = "soxOver"
    /\ state' = (IF state = "REQSTOP" THEN state ELSE "IDLE")
    /\ Goto(t, "dead")
    /\ UNCHANGED <<stopSox, jumps, accidents>>
    /\ SoxUnchanged

\* soxOverDone: unless a stop was asked for, the state becomes STOPPING and
\* silence is written; then the state becomes IDLE.
SoxOver(t) ==
    /\ \/ /\ thr[t] = "soxOver"
          /\ Goto(t, IF state = "REQSTOP" THEN "soxIdle" ELSE "soxStopping")
          /\ UNCHANGED state
       \/ /\ thr[t] = "soxStopping"
          /\ state' = "STOPPING"
          /\ Goto(t, "soxSilence")
       \/ /\ thr[t] = "soxIdle"
          /\ state' = "IDLE"
          /\ Goto(t, "dead")
    /\ UNCHANGED <<stopSox, jumps, accidents>>
    /\ SoxUnchanged

SoxError(t) ==
    /\ thr[t] = "soxError"
    /\ state' = "ERROR"
    /\ Goto(t, "dead")
    /\ UNCHANGED <<stopSox, jumps, accidents>>
    /\ SoxUnchanged

Sox(t) == SoxStart(t) \/ SoxOpen(t) \/ SoxWrite(t) \/ SoxUpdate(t) \/ SoxOver(t) \/ SoxError(t)

----------------------------------------------------------------------------
(* The watcher started by MusicService.play()                              *)

\* The play thread is over and the state is ERROR: the watcher reports it.
SeeError ==
    /\ ~recovering
    /\ state = "ERROR"
    /\ playThread \in Threads => ~Alive(playThread)
    /\ recovering' = TRUE
    /\ UNCHANGED <<java, thr, native, main, accidents>>

\* state = STATE_IDLE
Recover ==
    /\ recovering
    /\ recovering' = FALSE
    /\ state' = "IDLE"
    /\ Record(When("stale", state # "ERROR"))
    /\ UNCHANGED <<mediaBackendFormat, playThread, listener, thr,
                   native, main>>

Watcher == SeeError \/ Recover

Thread(t) == Timidity(t) \/ Sox(t)

Next == Main \/ Watcher \/ \E t \in Threads : Thread(t)

Spec == Init /\ [][Next]_vars

\* What a play thread does by itself; a song may go on for ever unless it is
\* told to stop, so that LastEvent is not among it.
Progress(t) ==
    \/ TimStart(t) \/ TimEntry(t) \/ LoadPoll(t) \/ Load(t) \/ Midi(t) \/ Drain(t)
    \/ PlayEnd(t) \/ FinishAE(t) \/ Tail(t) \/ Finish(t) \/ Sox(t)

\* The threads are scheduled and the main thread goes on with a command it
\* started; nobody has to send a command.
FairSpec ==
    /\ Spec
    /\ WF_vars(Handle)
    /\ WF_vars(Watcher)
    /\ \A t \in Threads : WF_vars(Progress(t))

----------------------------------------------------------------------------
(* Properties                                                              *)

\* The inductive invariant behind SingleThread: JNIHandler.playThread is the
\* only thread, it is over when JNIHandler.play is called, and it is over when
\* MediaPlayer is the backend.
ThreadInv ==
    /\ \A t \in Threads : Alive(t) => t = playThread
    /\ pc \in {"start", "fail"} => \A t \in Threads : ~Alive(t)
    /\ mediaBackendFormat = "MEDIAPLAYER" => \A t \in Threads : ~Alive(t)

\* There is never more than one play thread: two songs never write the state,
\* the AudioTrack and TiMidity's globals at the same time.
SingleThread == \A t, u \in Threads : Alive(t) /\ Alive(u) => t = u

Without(kinds) == accidents \cap kinds = {}

\* The code in which a song is going on: after state = STATE_PLAYING and
\* before the thread's own next write.
GoingOn == {"timEntry", "load", "midi", "drain", "playEnd", "return",
            "soxOpen", "soxWrite", "soxUpdate", "soxOver", "soxStopping", "soxError"}

\* What isActive() and waitForStable() take for granted: whenever the main
\* thread is free, the state is the one of the play thread, and it is never
\* left LOADING, REQSTOP or STOPPING by a song that is gone.
StateIsTrue ==
    pc = "idle" /\ Without({"stale", "prepare"}) =>
        CASE state = "LOADING" -> \E t \in Threads : thr[t] \in {"timStart", "soxStart"}
          [] state \in {"PLAYING", "PAUSED"} ->
                listener \/ \E t \in Threads : thr[t] \in GoingOn
          [] state \in {"REQSTOP", "STOPPING"} -> \E t \in Threads : Alive(t)
          [] state = "SEEKING" -> FALSE
          [] OTHER -> ~listener /\ ~Listening

\* Pause and resume are toggles, for the state and for TiMidity alike: when
\* nothing is under way the two agree.
PauseAgrees ==
    pc = "idle" /\ droid_rc = "none"
    /\ Without({"carried", "overwritten", "stale"}) =>
        \A t \in Threads : thr[t] = "midi" => (play_pause_flag <=> state = "PAUSED")

\* The thread is past its song, or it is going to find that it must stop.
Ending(t) ==
    \/ thr[t] \in {"playEnd", "return", "tail", "stopping", "finish", "soxOver",
                   "soxStopping", "soxSilence", "soxIdle", "soxError"}
    \/ thr[t] \in {"timEntry", "load", "midi", "drain"} /\ droid_rc = "stop"
    \/ thr[t] \in {"soxOpen", "soxWrite", "soxUpdate"} /\ stopSox

\* A stop that was asked for is never lost on its way from JNIHandler.stop to the
\* play thread: as long as the state is REQSTOP there is a thread that has been
\* told and has not left yet, to write the state that ends it.
StopIsKept ==
    state = "REQSTOP" /\ pc # "stopBackend"
    /\ Without({"stale", "ignored", "overwritten"}) => \E t \in Threads : Ending(t)

\* What the main thread waits for is on its way: a state that is not stable is
\* left by the play thread, a thread that is joined was told to stop, and the
\* command waitUntilReady waits for has a reader.
NeverFrozen ==
    Without({"stale", "unread", "prepare", "ignored", "overwritten"}) =>
        /\ pc = "stable" =>
              \/ state \in {"IDLE", "PAUSED", "PLAYING", "ERROR"}
              \/ \E t \in Threads : Ending(t) \/ thr[t] \in {"timStart", "soxStart"}
        /\ pc = "join" =>
              /\ mediaBackendFormat = "MEDIAPLAYER" => state = "IDLE"
              /\ \A t \in Threads : Alive(t) => Ending(t)
        /\ pc = "seekWait" => droid_rc = "none" \/ Listening

\* The handlers run on the application's main thread, where a loop that does
\* not end freezes the application: each of them returns.
HandlersReturn ==
    []Without({"stale", "unread", "prepare", "ignored", "overwritten"})
        => (pc # "idle" ~> pc = "idle")

\* A stop ends the song, however long it is.
StopEnds ==
    []Without({"stale", "ignored", "overwritten"})
        => (state = "REQSTOP" ~> state = "IDLE")
============================================================================
