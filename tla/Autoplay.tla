------------------------------ MODULE Autoplay ------------------------------
(***************************************************************************)
(* The automatic advance: MusicService.play() leaves a watcher thread      *)
(* behind for every song, which waits for the end of the song and then     *)
(* sends the service the command for the next one.  The main thread tells  *)
(* the watchers of former songs to give up through two plain fields,       *)
(* shouldAdvance and breakLoops, which it sets, clears and sets again for  *)
(* the next song.                                                          *)
(*                                                                         *)
(* The threads interleave at each access to the two fields that another    *)
(* thread can tell from its neighbour: the two stores at the start of a    *)
(* command are one step, since a watcher gives up on either.  Playing is   *)
(* reduced to what the watchers see of it: JNIHandler.state, and whether   *)
(* the play thread is over; the races inside a stop are in Playback, the   *)
(* numbers of the songs in PlaylistOrder.                                  *)
(***************************************************************************)
EXTENDS Integers, Sequences, FiniteSets

CONSTANTS
    Backends,   \* how the songs end: "thread" (TiMidity, SoX), "player" (MediaPlayer)
    loopMode,   \* 1 = the playlist, 2 = the song
    MaxStarts,  \* bound on the songs started
    MaxPending  \* bound on the broadcasts waiting

ASSUME BackendsAssumption == Backends \subseteq {"thread", "player"}
ASSUME LoopModeAssumption == loopMode \in {1, 2}
ASSUME BoundsAssumption == MaxStarts \in Nat /\ MaxPending \in Nat

VARIABLES
    shouldAdvance, breakLoops,
    state,      \* JNIHandler.state
    format,     \* the backend of the last song
    playing,    \* the song itself: "loading", "going", "leaving" or "over"
    started,    \* number of songs started; the watcher of a song has its number
    playThread, \* the last song that had a thread
    wpc,        \* where each watcher is
    target,     \* the thread it joined
    plist,      \* Globals.plist is not null
    pc, cmd,    \* where the main thread is, and the command it handles
    toService,  \* the broadcasts not delivered yet: [cmd, from]
    silent,     \* history: a song ended by itself and nothing came after it
    stopped,    \* history: the last command of the listener was stop
    excuses     \* history: the kinds of mishap met so far

flags == <<shouldAdvance, breakLoops>>
song == <<state, format, playing, started, playThread>>
watchers == <<wpc, target>>
main == <<pc, cmd>>
history == <<silent, stopped, excuses>>
vars == <<flags, song, watchers, plist, main, toService, history>>

Starts == 1..MaxStarts
Commands == {"play", "next", "stop", "select"}
\* A watcher that has found shouldAdvance set.
Deciding == {"break", "clear", "send"}
WatcherCode == {"none", "loading", "wait", "poll", "join", "error", "advance", "done"}
               \union Deciding
MainCode == {"idle", "stable", "stop", "unbreak", "join", "arm", "launch", "spawn"}
Excuses == {"behind", "late", "doubled"}
Message == [cmd : Commands, from : {"activity", "watcher"}]

\* TypeOK: the variables have the types their users rely on.
TypeOK ==
    /\ shouldAdvance \in BOOLEAN /\ breakLoops \in BOOLEAN
    /\ state \in {"IDLE", "LOADING", "PLAYING", "REQSTOP", "ERROR"}
    /\ format \in {"thread", "player"}
    /\ playing \in {"loading", "going", "leaving", "over"}
    /\ started \in 0..MaxStarts /\ playThread \in 0..MaxStarts
    /\ wpc \in [Starts -> WatcherCode]
    /\ target \in [Starts -> 0..MaxStarts]
    /\ plist \in BOOLEAN
    /\ pc \in MainCode /\ cmd \in Commands
    /\ toService \in Seq(Message)
    /\ silent \in BOOLEAN /\ stopped \in BOOLEAN
    /\ excuses \subseteq Excuses

Init ==
    /\ shouldAdvance = TRUE /\ breakLoops = FALSE
    /\ state = "IDLE" /\ format = "player" /\ playing = "over"
    /\ started = 0 /\ playThread = 0
    /\ wpc = [w \in Starts |-> "none"]
    /\ target = [w \in Starts |-> 0]
    /\ plist = FALSE
    /\ pc = "idle" /\ cmd = "stop"
    /\ toService = <<>>
    /\ silent = FALSE /\ stopped = FALSE /\ excuses = {}

Excuse(kind, condition) == IF condition THEN excuses \union {kind} ELSE excuses

\* The song that ends now ends by itself, and no command is being handled that
\* will see to the next one.
Unattended == state = "PLAYING" /\ pc \in {"idle", "spawn"} /\ ~stopped

----------------------------------------------------------------------------
(* The listener                                                            *)

Ask(c) ==
    /\ Len(toService) < MaxPending
    /\ toService' = toService \o
         (IF c = "select" THEN <<[cmd |-> "stop", from |-> "activity"]>> ELSE <<>>)
         \o <<[cmd |-> c, from |-> "activity"]>>
    /\ plist' = (plist \/ c = "select")
    /\ UNCHANGED <<flags, song, watchers, main, history>>

----------------------------------------------------------------------------
(* The main thread                                                         *)

\* The watcher's command, or one it is about to send, waits behind the one that
\* is delivered now.
Overtaken ==
    \/ \E i \in 2..Len(toService) : toService[i].from = "watcher"
    \/ \E w \in Starts : wpc[w] \in Deciding

\* The next command is delivered.  A command of the listener finds the one of a
\* watcher behind it, or a watcher that is about to send one.
Deliver ==
    /\ pc = "idle" /\ toService # <<>>
    /\ cmd' = Head(toService).cmd
    /\ toService' = Tail(toService)
    /\ silent' = FALSE
    /\ IF Head(toService).from = "watcher"
       THEN UNCHANGED <<stopped, excuses>>
       ELSE /\ stopped' = (cmd' = "stop")
            /\ excuses' = Excuse("late", Overtaken)

\* Mutant: only breakLoops tells the watchers, which play() resets again.
BeginPlayKeeps ==
    /\ Deliver
    /\ cmd' \in {"play", "next"}
    /\ breakLoops' = TRUE /\ UNCHANGED shouldAdvance
    /\ pc' = "stable"
    /\ UNCHANGED <<song, watchers, plist>>

\* next() and play() begin by telling the watchers to give up.
BeginPlay ==
    /\ Deliver
    /\ cmd' \in {"play", "next"}
    /\ shouldAdvance' = FALSE /\ breakLoops' = TRUE
    /\ pc' = "stable"
    /\ UNCHANGED <<song, watchers, plist>>

\* Mutant: the stop command does not forbid the advance.
BeginStopKeeps ==
    /\ Deliver
    /\ cmd' = "stop"
    /\ UNCHANGED flags
    /\ pc' = "stop"
    /\ UNCHANGED <<song, watchers, plist>>

\* The stop command forbids the advance; stop() does the rest.
BeginStop ==
    /\ Deliver
    /\ cmd' = "stop"
    /\ shouldAdvance' = FALSE /\ UNCHANGED breakLoops
    /\ pc' = "stop"
    /\ UNCHANGED <<song, watchers, plist>>

\* load_plist_play sets breakLoops before it looks for a list; the list of two
\* selections is taken by the first.
BeginSelect ==
    /\ pc = "idle" /\ toService # <<>> /\ Head(toService).cmd = "select"
    /\ cmd' = "select"
    /\ toService' = Tail(toService)
    /\ breakLoops' = TRUE
    /\ IF plist
       THEN /\ plist' = FALSE /\ shouldAdvance' = FALSE /\ pc' = "stable"
            /\ silent' = FALSE /\ stopped' = FALSE
            /\ excuses' = Excuse("late", Overtaken)
       ELSE /\ excuses' = excuses \union {"doubled"} /\ stopped' = FALSE
            /\ UNCHANGED <<plist, shouldAdvance, pc, silent>>
    /\ UNCHANGED <<song, watchers>>

\* waitForStable
Stable ==
    /\ pc = "stable"
    /\ state \in {"IDLE", "PLAYING"}
    /\ pc' = "stop"
    /\ UNCHANGED <<flags, song, watchers, plist, cmd, toService, history>>

\* stop(): an active song is asked to stop; MediaPlayer stops at once.
StopSong ==
    /\ pc = "stop"
    /\ pc' = IF cmd = "stop" THEN "idle" ELSE "unbreak"
    /\ IF state = "PLAYING"
       THEN /\ breakLoops' = TRUE
            /\ IF format = "player"
               THEN state' = "IDLE" /\ playing' = "over"
               ELSE state' = "REQSTOP" /\ UNCHANGED playing
       ELSE UNCHANGED <<breakLoops, state, playing>>
    /\ UNCHANGED <<shouldAdvance, format, started, playThread, watchers, plist,
                   cmd, toService, history>>

Unbreak ==
    /\ pc = "unbreak"
    /\ breakLoops' = FALSE
    /\ pc' = "join"
    /\ UNCHANGED <<shouldAdvance, song, watchers, plist, cmd, toService, history>>

Over == playing = "over"

\* waitForStop, then the test of breakLoops.
Joined ==
    /\ pc = "join"
    /\ IF format = "player" THEN state = "IDLE" ELSE Over
    /\ pc' = IF breakLoops THEN "idle" ELSE "arm"
    /\ UNCHANGED <<flags, song, watchers, plist, cmd, toService, history>>

\* Mutant: the flag is set when the song has started.
ArmLate ==
    /\ pc = "arm"
    /\ pc' = "launch"
    /\ UNCHANGED <<flags, song, watchers, plist, cmd, toService, history>>

\* shouldAdvance is set for the new song before there is one, in front of every
\* watcher that has not given up by now.
Arm ==
    /\ pc = "arm"
    /\ shouldAdvance' = TRUE
    /\ excuses' = Excuse("behind", \E w \in Starts : wpc[w] \notin {"none", "done"})
    /\ pc' = "launch"
    /\ UNCHANGED <<breakLoops, song, watchers, plist, cmd, toService, silent, stopped>>

\* JNIHandler.play: a song is started, or its file is not there.
Launch ==
    /\ pc = "launch"
    /\ \/ /\ started < MaxStarts
          /\ state = "IDLE"
          /\ started' = started + 1
          /\ format' \in Backends
          /\ IF format' = "player"
             THEN state' = "PLAYING" /\ playing' = "going" /\ UNCHANGED playThread
             ELSE state' = "LOADING" /\ playing' = "loading" /\ playThread' = started'
          /\ pc' = "spawn"
          /\ silent' = FALSE
          /\ UNCHANGED <<shouldAdvance, plist>>
       \/ /\ state' = "IDLE" /\ format' = "player"
          /\ shouldAdvance' = FALSE
          /\ pc' = "idle"
          /\ UNCHANGED <<playing, started, playThread, plist, silent>>
    /\ UNCHANGED <<breakLoops, watchers, cmd, toService, stopped, excuses>>

\* The watcher of the song is started.
Spawn ==
    /\ pc = "spawn"
    /\ wpc' = [wpc EXCEPT ![started] = "loading"]
    /\ pc' = "idle"
    /\ UNCHANGED <<flags, song, target, plist, cmd, toService, history>>

\* MediaPlayer calls its completion listener on the main thread.
Completed ==
    /\ pc = "idle" /\ format = "player" /\ playing = "going"
    /\ state' = "IDLE" /\ playing' = "over"
    /\ silent' = Unattended
    /\ UNCHANGED <<flags, format, started, playThread, watchers, plist, main,
                   toService, stopped, excuses>>

GoOn == Stable \/ StopSong \/ Unbreak \/ Joined \/ Arm \/ Launch \/ Spawn
Begin == BeginPlay \/ BeginStop \/ BeginSelect

----------------------------------------------------------------------------
(* The play thread                                                         *)

Song ==
    /\ format = "thread"
    /\ \/ /\ playing = "loading"
          /\ playing' = "going" /\ state' = "PLAYING" /\ UNCHANGED silent
       \/ \* it ended by itself, it failed, or it was stopped
          /\ playing = "going"
          /\ \/ playing' = "leaving" /\ state' = "IDLE" /\ silent' = Unattended
             \/ playing' = "leaving" /\ state' = "ERROR" /\ UNCHANGED silent
       \/ /\ playing = "leaving"
          /\ playing' = "over" /\ UNCHANGED <<state, silent>>
    /\ UNCHANGED <<flags, format, started, playThread, watchers, plist, main,
                   toService, stopped, excuses>>

\* A song does not end unless it is told to.
SongMustEnd == Song /\ (playing = "going" => state = "REQSTOP")

----------------------------------------------------------------------------
(* The watchers                                                            *)

Goto(w, code) == wpc' = [wpc EXCEPT ![w] = code]

\* while (!breakLoops && (state == LOADING && shouldAdvance)); what is shown and
\* the song's own settings, loaded next, do not touch the flags.
Loading(w) ==
    /\ wpc[w] = "loading"
    /\ breakLoops \/ state # "LOADING" \/ ~shouldAdvance
    /\ Goto(w, "wait")
    /\ UNCHANGED <<flags, song, target, plist, main, toService, history>>

\* waitForStop: the backend and the play thread are those of the present song,
\* which need not be the watcher's own.
Wait(w) ==
    /\ wpc[w] = "wait"
    /\ IF format = "player"
       THEN Goto(w, "poll") /\ UNCHANGED target
       ELSE Goto(w, "join") /\ target' = [target EXCEPT ![w] = playThread]
    /\ UNCHANGED <<flags, song, plist, main, toService, history>>

Waited(w) ==
    /\ \/ wpc[w] = "poll" /\ state = "IDLE"
       \/ wpc[w] = "join" /\ (target[w] # playThread \/ Over \/ format = "player")
    /\ Goto(w, "error")
    /\ UNCHANGED <<flags, song, target, plist, main, toService, history>>

\* Mutant: after an error the state is the one before the library is loaded.
FailedUninit(w) ==
    /\ wpc[w] = "error"
    /\ IF state = "ERROR" THEN state' = "UNINIT" /\ shouldAdvance' = FALSE
                          ELSE UNCHANGED <<state, shouldAdvance>>
    /\ Goto(w, "advance")
    /\ UNCHANGED <<breakLoops, format, playing, started, playThread, target, plist,
                   main, toService, history>>

\* After an error the state is reset and nothing follows.
Failed(w) ==
    /\ wpc[w] = "error"
    /\ IF state = "ERROR" THEN state' = "IDLE" /\ shouldAdvance' = FALSE
                          ELSE UNCHANGED <<state, shouldAdvance>>
    /\ Goto(w, "advance")
    /\ UNCHANGED <<breakLoops, format, playing, started, playThread, target, plist,
                   main, toService, history>>

\* if (shouldAdvance && !breakLoops), two loads.
TestAdvance(w) ==
    /\ wpc[w] = "advance"
    /\ Goto(w, IF shouldAdvance THEN "break" ELSE "done")
    /\ UNCHANGED <<flags, song, target, plist, main, toService, history>>

TestBreak(w) ==
    /\ wpc[w] = "break"
    /\ Goto(w, IF breakLoops THEN "done" ELSE "clear")
    /\ UNCHANGED <<flags, song, target, plist, main, toService, history>>

Clear(w) ==
    /\ wpc[w] = "clear"
    /\ shouldAdvance' = FALSE
    /\ Goto(w, "send")
    /\ UNCHANGED <<breakLoops, song, target, plist, main, toService, history>>

\* Mutant: sends and looks again.
SendAgain(w) ==
    /\ wpc[w] = "send"
    /\ Len(toService) < MaxPending
    /\ toService' = Append(toService, [cmd |-> IF loopMode = 1 THEN "next" ELSE "play", from |-> "watcher"])
    /\ wpc' \in {[wpc EXCEPT ![w] = "clear"], [wpc EXCEPT ![w] = "done"]}
    /\ silent' = FALSE
    /\ UNCHANGED <<flags, song, target, plist, main, stopped, excuses>>

Send(w) ==
    /\ wpc[w] = "send"
    /\ toService' = Append(toService, [cmd |-> IF loopMode = 1 THEN "next" ELSE "play", from |-> "watcher"])
    /\ Goto(w, "done")
    /\ silent' = FALSE
    /\ UNCHANGED <<flags, song, target, plist, main, stopped, excuses>>

Watcher(w) == Loading(w) \/ Wait(w) \/ Waited(w) \/ Failed(w) \/ TestAdvance(w)
              \/ TestBreak(w) \/ Clear(w) \/ Send(w)

Next ==
    \/ \E c \in Commands : Ask(c)
    \/ Begin \/ GoOn \/ Completed
    \/ Song
    \/ \E w \in Starts : Watcher(w)

Spec == Init /\ [][Next]_vars

\* Broadcasts are delivered, handlers go on and threads run; a song may be
\* endless and the listener need not do anything.
FairSpec ==
    /\ Spec
    /\ WF_vars(Begin) /\ WF_vars(GoOn)
    /\ WF_vars(SongMustEnd)
    /\ \A w \in Starts : WF_vars(Watcher(w))

----------------------------------------------------------------------------
(* Properties                                                              *)

Autos == {i \in DOMAIN toService : toService[i].from = "watcher"}
Without(kinds) == excuses \intersect kinds = {}

\* A watcher that decides to go on belongs to the last song, and that song
\* ended by itself: nobody stopped it and no other song was begun meanwhile.
\* Not when a watcher is left behind by a quick change of songs: it then waits
\* for the end of the wrong song (waitForStop takes the thread of the present
\* one) or finds shouldAdvance set for a song that has not begun.
DecidesForOwnSong ==
    \A w \in Starts : wpc[w] \in {"clear", "send"} /\ Without({"behind", "late"}) =>
        w = started /\ silent /\ pc = "idle"

\* The end of a song sends one command at most: no song is skipped.  Two
\* watchers can pass the test of shouldAdvance together, but only if one of them
\* was left behind.
OneAdvance ==
    Without({"behind", "late"}) =>
        Cardinality(Autos) + Cardinality({w \in Starts : wpc[w] \in {"clear", "send"}}) <= 1

\* After a stop nothing is started until the listener asks for it, unless the
\* watcher had decided before the stop was handled.
StaysStopped == [][started' # started /\ stopped => "late" \in excuses]_vars

\* The next song is on its way.  As long as nothing followed a song that ended by
\* itself, its watcher has sent for the next one or will find both flags as it
\* needs them: no command that was handled meanwhile, no stop that was revoked by
\* a new song and no other watcher has left them in its way.
NextIsComing ==
    silent /\ Without({"behind", "doubled"}) =>
        \/ \E w \in Starts : wpc[w] \in {"clear", "send"}
        \/ /\ shouldAdvance /\ ~breakLoops
           /\ \/ pc = "spawn"
              \/ \E w \in Starts : wpc[w] \notin {"none", "clear", "send", "done"}

\* With a loop mode set, a song that ended by itself is followed by another
\* command, whoever sends it.
GoesOn == []Without({"behind", "doubled"}) => (silent ~> ~silent)

\* The help: "The double arrow icon indicates the playlist will loop."
PlaylistLoops == []Without({"behind"}) => (silent ~> ~silent)
=============================================================================
