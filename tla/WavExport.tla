------------------------------ MODULE WavExport ------------------------------
(***************************************************************************)
(* The export of a MIDI file to a WAV file: the activity's WavSaver with   *)
(* its progress dialog and the dialog's thread, the service's commands     *)
(* write_new (a file that is not playing) and write_curr (the song that    *)
(* is), the watcher each of them starts, and the play thread that writes,  *)
(* closes and completes the file.                                          *)
(*                                                                         *)
(* What one thread does without another being able to tell is one step.    *)
(* JNIHandler's test and store of the state, which module Playback takes   *)
(* apart, are one step here; what may come between them and the song is    *)
(* not.  The exports are numbered as they are asked for; each has a file   *)
(* of its own, in a directory that can be written to.                      *)
(***************************************************************************)
EXTENDS Integers, Sequences, FiniteSets

CONSTANTS
    MaxExports,  \* bound on the number of exports
    Threads,     \* the play threads there may be at the same time
    keepPartial  \* SettingsStorage.keepPartialWav

ASSUME MaxExportsAssumption == MaxExports \in Nat
ASSUME KeepAssumption == keepPartial \in BOOLEAN

Exports == 1..MaxExports
Commands == {"write_new", "write_curr"}

VARIABLES
    state,      \* JNIHandler.state
    thr,        \* where each play thread is
    owner,      \* the export its song belongs to, 0 when it is only played
    closing,    \* the writer on which it called finishOutput
    droid_rc,   \* the command slot
    paused,     \* TiMidity is paused
    current,    \* the export of currentWavWriter, 0 when it is null
    open,       \* the writers with ~finishedWriting
    file,       \* what is in the storage
    ended,      \* the exports whose song was written up to its last event
    breakLoops, \* MusicService.breakLoops
    watch,      \* where the watcher of each export is
    special,    \* the saver the activity remembers, 0 when it is null
    dlg,        \* the progress dialog of each export and its thread
    done,       \* the savers with localfinished
    requests,   \* the commands write_new and write_curr that were broadcast
    notices,    \* special_notification_finished, by the export that sent it
    pc,         \* where the main thread is in a write command
    handled,    \* the export it is about
    oldstate,   \* the state seekTo read
    mishaps     \* history: what went wrong so far

player == <<state, thr, owner, closing, droid_rc, paused>>
writers == <<current, open, file, ended>>
dialogs == <<special, dlg, done>>
main == <<pc, handled, oldstate>>
vars == <<player, writers, breakLoops, watch, dialogs, requests, notices, main, mishaps>>

States == {"IDLE", "LOADING", "PLAYING", "PAUSED", "SEEKING", "REQSTOP", "STOPPING"}
ThreadCode == {"dead", "start", "entry", "play", "playEnd", "return", "tail",
               "stopping", "finish", "header"}
MainCode == {"free", "newWait", "unpaused", "seek", "sought", "pause", "ready"}
DialogCode == {"none", "converting", "dismissed", "stopping", "canceling",
               "canceled", "copying", "wrote"}
WatchCode == {"none", "toStart", "toPlay", "active", "playing"}
FileStates == {"absent", "raw", "patched", "stub"}
Mishaps == {"overlap", "refused", "early", "mistaken", "stopped",
            "ignored", "overwritten", "unread", "stale", "ahead", "missed"}

isActive == state \in {"PLAYING", "PAUSED", "SEEKING"}
Alive(t) == thr[t] # "dead"
Listening == \E t \in Threads : thr[t] \in {"start", "entry", "play"}
Going(e) == \E t \in Threads : owner[t] = e /\ thr[t] \in {"start", "entry", "play"}
Writing == current # 0 /\ current \in open

TypeOK ==
    /\ state \in States
    /\ thr \in [Threads -> ThreadCode]
    /\ owner \in [Threads -> 0..MaxExports]
    /\ closing \in [Threads -> 0..MaxExports]
    /\ droid_rc \in {"none", "toggle", "jump", "stop"}
    /\ paused \in BOOLEAN
    /\ current \in 0..MaxExports
    /\ open \in SUBSET Exports
    /\ file \in [Exports -> FileStates]
    /\ ended \in SUBSET Exports
    /\ breakLoops \in BOOLEAN
    /\ watch \in [Exports -> WatchCode]
    /\ special \in 0..MaxExports
    /\ dlg \in [Exports -> DialogCode]
    /\ done \in SUBSET Exports
    /\ requests \in SUBSET (Exports \X Commands)
    /\ notices \in Seq(Exports)
    /\ pc \in MainCode
    /\ handled \in 0..MaxExports
    /\ oldstate \in States
    /\ mishaps \in SUBSET Mishaps

Init ==
    /\ state = "IDLE" /\ droid_rc = "none" /\ paused = FALSE
    /\ thr = [t \in Threads |-> "dead"]
    /\ owner = [t \in Threads |-> 0] /\ closing = [t \in Threads |-> 0]
    /\ current = 0 /\ open = {} /\ ended = {}
    /\ file = [e \in Exports |-> "absent"]
    /\ breakLoops = FALSE
    /\ watch = [e \in Exports |-> "none"]
    /\ special = 0 /\ done = {}
    /\ dlg = [e \in Exports |-> "none"]
    /\ requests = {} /\ notices = <<>>
    /\ pc = "free" /\ handled = 0 /\ oldstate = "IDLE"
    /\ mishaps = {}

When(k, condition) == IF condition THEN {k} ELSE {}
Record(kinds) == mishaps' = mishaps \cup kinds
Post(cmd) == droid_rc' = cmd
PostMishaps == When("overwritten", droid_rc # "none") \cup When("unread", ~Listening)

\* JNIHandler.stop, called for a song that may have ended by then.
JNIStop(kinds) == /\ state' = "REQSTOP"
                  /\ Post("stop")
                  /\ Record(kinds \cup PostMishaps)

\* JNIHandler.pause: a toggle for the state and for the song.
JNIPause ==
    IF state \in {"PLAYING", "PAUSED"}
    THEN /\ state' = (IF state = "PAUSED" THEN "PLAYING" ELSE "PAUSED")
         /\ Post("toggle")
         /\ Record(PostMishaps)
    ELSE UNCHANGED <<state, droid_rc, mishaps>>

\* JNIHandler.play: a thread is started when the state is IDLE.
JNIPlay(e) ==
    /\ state' = "LOADING"
    /\ \E t \in Threads :
          /\ ~Alive(t)
          /\ thr' = [thr EXCEPT ![t] = "start"]
          /\ owner' = [owner EXCEPT ![t] = e]
    /\ UNCHANGED <<closing, droid_rc, paused>>

SetupOutputFile(e) ==
    /\ current' = e
    /\ open' = open \cup {e}
    /\ file' = [file EXCEPT ![e] = "raw"]
    /\ UNCHANGED ended

----------------------------------------------------------------------------
(* The activity                                                            *)

Visible(e) == dlg[e] \in {"converting", "copying"}

\* The listener plays a song, after the last one is gone.
Play ==
    /\ pc = "free" /\ state = "IDLE"
    /\ \A t \in Threads : ~Alive(t)
    /\ \A e \in Exports : ~Visible(e)
    /\ JNIPlay(0)
    /\ UNCHANGED <<writers, breakLoops, watch, dialogs, requests, notices, main, mishaps>>

\* The name is chosen (an existing file of that name was deleted): the command
\* is broadcast and the progress dialog shown with its thread.  The song
\* that is playing can be exported while there is one.
Export(k) ==
    /\ pc = "free" /\ special < MaxExports
    /\ \A e \in Exports : ~Visible(e)
    /\ k = "write_curr" => isActive
    /\ special' = special + 1
    /\ dlg' = [dlg EXCEPT ![special + 1] = "converting"]
    /\ requests' = requests \cup {<<special + 1, k>>}
    /\ UNCHANGED <<player, writers, breakLoops, watch, done, notices, main, mishaps>>

Cancel(e) ==
    /\ pc = "free" /\ dlg[e] = "converting"
    /\ dlg' = [dlg EXCEPT ![e] = "dismissed"]
    /\ UNCHANGED <<player, writers, breakLoops, watch, special, done,
                   requests, notices, main, mishaps>>

\* From the notification, a headset or a call: MusicService.pause and stop.
Pause ==
    /\ pc = "free" /\ state \in {"PLAYING", "PAUSED"}
    /\ JNIPause
    /\ UNCHANGED <<thr, owner, closing, paused, writers, breakLoops, watch,
                   dialogs, requests, notices, main>>

Stop ==
    /\ pc = "free" /\ isActive
    /\ breakLoops' = TRUE
    /\ JNIStop(When("stopped", Writing))
    /\ UNCHANGED <<thr, owner, closing, paused, writers, watch, dialogs,
                   requests, notices, main>>

\* The thread of the dialog: the loop ends when the saver is told that the
\* export has finished, or when the dialog is gone.
DialogLoop(e) ==
    /\ dlg[e] \in {"converting", "dismissed"}
    /\ dlg' = [dlg EXCEPT ![e] = IF e \in done THEN "copying" ELSE "stopping"]
    /\ e \in done \/ dlg[e] = "dismissed"
    /\ UNCHANGED <<player, writers, breakLoops, watch, special, done,
                   requests, notices, main, mishaps>>

\* Faulty variant of DialogStop: stores the state and sends no command.
DialogStopsState(e) ==
    /\ dlg[e] = "stopping"
    /\ dlg' = [dlg EXCEPT ![e] = "canceling"]
    /\ state' = "REQSTOP"
    /\ UNCHANGED <<thr, owner, closing, droid_rc, paused, writers, breakLoops, watch,
                   special, done, requests, notices, main, mishaps>>

DialogStop(e) ==
    /\ dlg[e] = "stopping"
    /\ dlg' = [dlg EXCEPT ![e] = "canceling"]
    /\ JNIStop(When("stopped", Writing /\ current # e)
                 \cup When("ahead", handled = e \/ \E k \in Commands : <<e, k>> \in requests))
    /\ UNCHANGED <<thr, owner, closing, paused, writers, breakLoops, watch,
                   special, done, requests, notices, main>>

\* What it posts to the main thread: the file is deleted if it exists and is
\* not to be kept, or the export is reported.
Canceled(e) ==
    /\ pc = "free" /\ dlg[e] = "canceling"
    /\ dlg' = [dlg EXCEPT ![e] = "canceled"]
    /\ file' = [file EXCEPT ![e] = IF keepPartial THEN @ ELSE "absent"]
    /\ UNCHANGED <<player, current, open, ended, breakLoops, watch, special,
                   done, requests, notices, main, mishaps>>

Wrote(e) ==
    /\ pc = "free" /\ dlg[e] = "copying"
    /\ dlg' = [dlg EXCEPT ![e] = "wrote"]
    /\ UNCHANGED <<player, writers, breakLoops, watch, special, done,
                   requests, notices, main, mishaps>>

\* special_notification_finished is for the saver created last, whoever sent it.
Deliver ==
    /\ pc = "free" /\ notices # <<>>
    /\ notices' = Tail(notices)
    /\ done' = done \cup {special}
    /\ Record(When("mistaken", Head(notices) # special))
    /\ UNCHANGED <<player, writers, breakLoops, watch, special, dlg,
                   requests, main>>

----------------------------------------------------------------------------
(* The service: write_new                                                  *)

\* Broadcasts are delivered in the order in which they were sent.
Handling(e, k) ==
    /\ pc = "free"
    /\ <<e, k>> \in requests /\ \A r \in requests : e <= r[1]
    /\ requests' = requests \ {<<e, k>>}
    /\ handled' = e

\* The song that plays is stopped; the main thread then polls for the state
\* IDLE and does not join the play thread.
BeginNew(e) ==
    /\ Handling(e, "write_new")
    /\ pc' = "newWait"
    /\ IF isActive
       THEN breakLoops' = TRUE /\ JNIStop({})
       ELSE UNCHANGED <<breakLoops, state, droid_rc, mishaps>>
    /\ UNCHANGED <<thr, owner, closing, paused, writers, watch, dialogs,
                   notices, oldstate>>

\* The writer is set up, the song started - the result of JNIHandler.play is
\* ignored, it fails when the file is gone - and a watcher with it.
StartNew ==
    /\ pc = "newWait" /\ state = "IDLE"
    /\ SetupOutputFile(handled)
    /\ breakLoops' = FALSE
    /\ watch' = [watch EXCEPT ![handled] = "toStart"]
    /\ pc' = "free" /\ handled' = 0
    /\ LET overlap == When("overlap", \E t \in Threads : Alive(t))
       IN \/ JNIPlay(handled) /\ Record(overlap)
          \/ UNCHANGED player /\ Record(overlap \cup {"refused"})
    /\ UNCHANGED <<dialogs, requests, notices, oldstate>>

\* It waits until the song plays; IDLE is taken for an error.
WatchStart(e) ==
    /\ watch[e] = "toStart"
    /\ breakLoops \/ state \in {"PLAYING", "IDLE"}
    /\ breakLoops' = (breakLoops \/ state = "IDLE")
    /\ watch' = [watch EXCEPT ![e] = "active"]
    /\ UNCHANGED <<player, writers, dialogs, requests, notices, main, mishaps>>

\* Faulty variant of WatchActive: does not wait for the end of the song.
WatchNothing(e) ==
    /\ watch[e] = "active"
    /\ watch' = [watch EXCEPT ![e] = "none"]
    /\ notices' = Append(notices, e)
    /\ breakLoops' = FALSE
    /\ UNCHANGED <<player, writers, dialogs, requests, main, mishaps>>

\* The export is announced as finished as soon as the state is not active.
WatchActive(e) ==
    /\ watch[e] = "active" /\ ~isActive
    /\ watch' = [watch EXCEPT ![e] = "none"]
    /\ notices' = Append(notices, e)
    /\ breakLoops' = FALSE
    /\ Record(When("early", Going(e)))
    /\ UNCHANGED <<player, writers, dialogs, requests, main>>

----------------------------------------------------------------------------
(* The service: write_curr                                                 *)

\* A paused song goes on.
BeginCurr(e) ==
    /\ Handling(e, "write_curr")
    /\ IF state = "PAUSED"
       THEN pc' = "unpaused" /\ JNIPause
       ELSE pc' = "seek" /\ UNCHANGED <<state, droid_rc, mishaps>>
    /\ UNCHANGED <<thr, owner, closing, paused, writers, breakLoops, watch,
                   dialogs, notices, oldstate>>

\* waitUntilReady: after the toggle, after the jump and after the second toggle.
Unpaused ==
    /\ pc = "unpaused" /\ droid_rc = "none"
    /\ pc' = "seek"
    /\ UNCHANGED <<player, writers, breakLoops, watch, dialogs, requests, notices,
                   handled, oldstate, mishaps>>

\* JNIHandler.seekTo(0), up to its waitUntilReady and after it.
Seek ==
    /\ pc = "seek"
    /\ pc' = "sought"
    /\ oldstate' = state
    /\ state' = "SEEKING"
    /\ Post("jump")
    /\ Record(PostMishaps)
    /\ UNCHANGED <<thr, owner, closing, paused, writers, breakLoops, watch,
                   dialogs, requests, notices, handled>>

Sought ==
    /\ pc = "sought" /\ droid_rc = "none"
    /\ pc' = "pause"
    /\ state' = oldstate
    /\ oldstate' = "IDLE"
    /\ Record(When("stale", state # "SEEKING" \/ ~Listening))
    /\ UNCHANGED <<thr, owner, closing, droid_rc, paused, writers, breakLoops,
                   watch, dialogs, requests, notices, handled>>

PauseForCurr ==
    /\ pc = "pause"
    /\ pc' = "ready"
    /\ JNIPause
    /\ UNCHANGED <<thr, owner, closing, paused, writers, breakLoops, watch,
                   dialogs, requests, notices, handled, oldstate>>

\* Faulty variant of StartCurr: does not look whether the song is still there.
StartCurrAnyway ==
    /\ pc = "ready" /\ droid_rc = "none"
    /\ pc' = "free" /\ handled' = 0
    /\ SetupOutputFile(handled)
    /\ JNIPause
    /\ owner' = [t \in Threads |-> IF Alive(t) THEN handled ELSE owner[t]]
    /\ watch' = [watch EXCEPT ![handled] = "toPlay"]
    /\ UNCHANGED <<thr, closing, paused, breakLoops, dialogs, requests, notices,
                   oldstate>>

\* The song is paused at its start: it goes on into the file.  Otherwise the
\* handler returns without a watcher, and nobody tells the saver.
StartCurr ==
    /\ pc = "ready" /\ droid_rc = "none"
    /\ pc' = "free" /\ handled' = 0
    /\ IF state = "PAUSED"
       THEN /\ SetupOutputFile(handled)
            /\ JNIPause
            /\ owner' = [t \in Threads |-> IF Alive(t) THEN handled ELSE owner[t]]
            /\ watch' = [watch EXCEPT ![handled] = "toPlay"]
       ELSE /\ Record({"refused"})
            /\ UNCHANGED <<writers, state, droid_rc, owner, watch>>
    /\ UNCHANGED <<thr, closing, paused, breakLoops, dialogs, requests, notices,
                   oldstate>>

\* Faulty variant of WatchCurr: only waits for the song to play.
WatchCurrStart(e) ==
    /\ watch[e] = "toPlay" /\ state = "PLAYING"
    /\ watch' = [watch EXCEPT ![e] = "none"]
    /\ UNCHANGED <<player, writers, breakLoops, dialogs, requests, notices, main, mishaps>>

\* Its watcher waits for PLAYING, and then for any other state.
WatchCurr(e) ==
    \/ /\ watch[e] = "toPlay" /\ state = "PLAYING"
       /\ watch' = [watch EXCEPT ![e] = "playing"]
       /\ UNCHANGED <<player, writers, breakLoops, dialogs, requests, notices, main, mishaps>>
    \/ /\ watch[e] = "playing" /\ state # "PLAYING"
       /\ watch' = [watch EXCEPT ![e] = "none"]
       /\ notices' = Append(notices, e)
       /\ Record(When("early", Going(e)))
       /\ UNCHANGED <<player, writers, breakLoops, dialogs, requests, main>>

----------------------------------------------------------------------------
(* The play thread                                                         *)

Goto(t, code) == thr' = [thr EXCEPT ![t] = code]
Die(t) == Goto(t, "dead") /\ owner' = [owner EXCEPT ![t] = 0]
ThreadUnchanged == UNCHANGED <<current, breakLoops, watch, dialogs,
                               requests, notices, main>>

\* state = STATE_PLAYING, and the poll of play_midi_file, which throws away
\* what it finds.
Started(t) ==
    /\ \/ /\ thr[t] = "start"
          /\ state' = "PLAYING"
          /\ Goto(t, "entry")
          /\ UNCHANGED <<droid_rc, paused, mishaps>>
       \/ /\ thr[t] = "entry"
          /\ Goto(t, "play")
          /\ droid_rc' = "none"
          /\ paused' = (paused # (droid_rc = "toggle"))
          /\ Record(When("ignored", droid_rc = "stop"))
          /\ UNCHANGED state
    /\ UNCHANGED <<owner, closing, open, file, ended>>
    /\ ThreadUnchanged

\* A command is taken; a stop clears the pause.
Poll(t) ==
    /\ thr[t] = "play" /\ droid_rc # "none"
    /\ droid_rc' = "none"
    /\ paused' = (droid_rc # "stop" /\ paused # (droid_rc = "toggle"))
    /\ Goto(t, IF droid_rc = "stop" THEN "playEnd" ELSE "play")
    /\ UNCHANGED <<state, owner, closing, open, file, ended, mishaps>>
    /\ ThreadUnchanged

\* The song was played to its end, into the file if one is written.
LastEvent(t) ==
    /\ thr[t] = "play" /\ ~paused
    /\ Goto(t, "playEnd")
    /\ ended' = IF Writing /\ owner[t] = current THEN ended \cup {current} ELSE ended
    /\ Record(When("unread", droid_rc # "none"))
    /\ UNCHANGED <<state, owner, closing, droid_rc, paused, open, file>>
    /\ ThreadUnchanged

\* PM_REQ_PLAY_END, then finishCallback: twice state = STATE_IDLE.
SongOver(t) ==
    /\ \/ /\ thr[t] = "playEnd"
          /\ Goto(t, "return")
          /\ Record(When("missed", owner[t] # 0 /\ watch[owner[t]] = "toPlay"))
       \/ /\ thr[t] = "return"
          /\ Goto(t, "tail")
          /\ UNCHANGED mishaps
    /\ state' = "IDLE"
    /\ UNCHANGED <<owner, closing, droid_rc, paused, open, file, ended>>
    /\ ThreadUnchanged

\* Faulty variant of Leave: the player has to be initialised again.
LeaveUninit(t) ==
    /\ thr[t] = "tail"
    /\ Goto(t, "finish")
    /\ state' = (IF state = "IDLE" THEN "IDLE" ELSE "UNINIT")
    /\ UNCHANGED <<owner, closing, droid_rc, paused, open, file, ended, mishaps>>
    /\ ThreadUnchanged

\* if (state != STATE_IDLE) state = STATE_STOPPING
Leave(t) ==
    /\ \/ /\ thr[t] = "tail"
          /\ Goto(t, IF state = "IDLE" THEN "finish" ELSE "stopping")
          /\ UNCHANGED state
       \/ /\ thr[t] = "stopping"
          /\ state' = "STOPPING"
          /\ Goto(t, "finish")
    /\ UNCHANGED <<owner, closing, droid_rc, paused, open, file, ended, mishaps>>
    /\ ThreadUnchanged

\* Faulty variant of Finish: leaves the file open.
FinishLeavesOpen(t) ==
    /\ thr[t] = "finish"
    /\ Die(t)
    /\ UNCHANGED <<state, droid_rc, paused, closing, open, file, ended, mishaps>>
    /\ ThreadUnchanged

\* finishOutput closes the current writer, whoever set it up.
Finish(t) ==
    /\ thr[t] = "finish"
    /\ IF Writing
       THEN /\ Goto(t, "header")
            /\ closing' = [closing EXCEPT ![t] = current]
            /\ open' = open \ {current}
            /\ UNCHANGED owner
       ELSE /\ Die(t)
            /\ UNCHANGED <<closing, open>>
    /\ UNCHANGED <<state, droid_rc, paused, file, ended, mishaps>>
    /\ ThreadUnchanged

\* It then opens the file again to write the two sizes into its header: a file
\* that was deleted in between is created again.
Header(t) ==
    /\ thr[t] = "header"
    /\ Die(t)
    /\ closing' = [closing EXCEPT ![t] = 0]
    /\ file' = [file EXCEPT ![closing[t]] = IF @ = "absent" THEN "stub" ELSE "patched"]
    /\ UNCHANGED <<state, droid_rc, paused, open, ended, mishaps>>
    /\ ThreadUnchanged

Thread(t) == Started(t) \/ Poll(t) \/ SongOver(t) \/ Leave(t) \/ Finish(t) \/ Header(t)

----------------------------------------------------------------------------
Handle == \/ StartNew \/ Unpaused \/ Seek \/ Sought \/ PauseForCurr \/ StartCurr
          \/ \E e \in Exports : BeginNew(e) \/ BeginCurr(e)
Dialog(e) == DialogLoop(e) \/ DialogStop(e) \/ Canceled(e) \/ Wrote(e)
Watcher(e) == WatchStart(e) \/ WatchActive(e) \/ WatchCurr(e)

Next ==
    \/ Play \/ Pause \/ Stop \/ Deliver \/ Handle
    \/ \E k \in Commands : Export(k)
    \/ \E e \in Exports : Cancel(e) \/ Dialog(e) \/ Watcher(e)
    \/ \E t \in Threads : Thread(t) \/ LastEvent(t)

Spec == Init /\ [][Next]_vars

\* The threads run, the handlers go on and what was posted is delivered.  The
\* song may be endless and nobody has to press a button.
FairSpec ==
    /\ Spec
    /\ WF_vars(Handle) /\ WF_vars(Deliver)
    /\ \A e \in Exports : WF_vars(Dialog(e)) /\ WF_vars(Watcher(e))
    /\ \A t \in Threads : WF_vars(Thread(t))

----------------------------------------------------------------------------
(* Properties                                                              *)

Without(kinds) == mishaps \cap kinds = {}

\* "Wrote" is shown for an export whose song was written to its last event.
WroteMeansEnded ==
    \A e \in Exports :
        dlg[e] = "wrote" /\ Without({"refused", "early", "mistaken", "stopped", "overlap", "unread"})
            => e \in ended

\* A writer that is open has a thread that will close it.
WriterHasThread ==
    pc = "free" /\ Writing /\ Without({"refused"}) => \E t \in Threads : Alive(t)

\* The file of an export is closed by the thread of its own song.
OwnThreadCloses ==
    \A t \in Threads : thr[t] = "header" /\ Without({"overlap", "refused"}) => closing[t] = owner[t]

\* A song whose export was canceled is over or has the stop before it.
CancelStops ==
    \A e \in Exports :
        dlg[e] \in {"canceling", "canceled"} /\ Going(e)
        /\ Without({"ignored", "overwritten", "ahead", "overlap"})
            => droid_rc = "stop"

\* Nothing is under way: every thread is at its end or waits for something
\* that only the listener can bring about.
Quiet ==
    /\ pc = "free" /\ requests = {} /\ notices = <<>>
    /\ \A t \in Threads : ~Alive(t)
    /\ \A e \in Exports :
          /\ dlg[e] \in {"none", "converting", "canceled", "wrote"}
          /\ dlg[e] = "converting" => e \notin done
          /\ watch[e] = "active" => isActive
          /\ watch[e] = "playing" => state = "PLAYING"
          /\ watch[e] = "toPlay" => state # "PLAYING"
          /\ watch[e] # "toStart"

\* The dialog of an export does not stay when nothing is going on any more.
DialogCloses ==
    Quiet /\ Without({"refused", "missed"}) =>
        \A e \in Exports : dlg[e] # "converting"

\* A conversion that was canceled leaves no file when it is over, unless
\* partial conversions are kept (sett_kpw_sum).
CancelDeletes ==
    \A e \in Exports :
        /\ dlg[e] = "canceled" /\ ~keepPartial /\ mishaps = {}
        /\ \A t \in Threads : ~Alive(t)
        => file[e] = "absent"
==============================================================================
