----------------------------- MODULE SongConfig -----------------------------
(***************************************************************************)
(* What the listener sets for a MIDI song and keeps in a configuration     *)
(* file: programs and volumes locked per channel, speed, key and number of *)
(* voices.  Java and TiMidity each have their own copy, and the copies are *)
(* brought together by native calls on the main thread, by commands in the *)
(* slot and by callbacks of the play thread.                               *)
(*                                                                         *)
(* The state of the player is taken as in module Playback without its      *)
(* races: a command is sent while a song is active.  RC_SPEEDUP and        *)
(* RC_SPEEDDOWN, and the two commands for the voices, are one command each *)
(* with a signed argument; the voice buttons step by one and not by five.  *)
(* TiMidity's own reduction of the voices under load is left out.          *)
(***************************************************************************)
EXTENDS Integers, FiniteSets

CONSTANTS
    Programs,   \* the channels' programs that are set
    Volumes,    \* the channels' volumes that are set
    Values,     \* what they may be set to
    Default,    \* what a reset sets them to
    MaxVoices,  \* max_voices
    Buttons,    \* the buttons that are pressed: a command and its argument
    MaxCalls    \* bound on the number of the listener's actions

Settings == Programs \cup Volumes

ASSUME DefaultAssumption == Default \in Values
ASSUME ButtonsAssumption == Buttons \subseteq {"speed", "key", "voices"} \X {1, -1}
ASSUME VoicesAssumption == MaxVoices \in Nat
ASSUME CallsAssumption == MaxCalls \in Nat

VARIABLES
    state,      \* JNIHandler.state
    cust,       \* JNIHandler.custInst and custVol
    shown,      \* JNIHandler.programs and volumes
    tempoCount, keyOffset, maxvoice,
    thr,        \* where the play thread is
    forced,     \* forced_instrument and forced_volume of the channels
    value,      \* their program and volume
    pending,    \* a setting found unlocked, about to be written by an event
    speed,      \* midi_time_ratio, as a power of SPEED_CHANGE_RATE
    key,        \* note_key_offset
    voices, die, paused,
    slot,       \* droid_rc and droid_arg
    taken,      \* the command apply_controls has read and not carried out
    pc, then,   \* where the main thread is, and where it goes after waiting
    file,       \* the configuration file
    heard,      \* history: what TiMidity was playing when it was written, if it was
    restored,   \* history: the file was loaded and nothing was done since
    calls,      \* the number of the listener's actions so far
    mishaps     \* history: what went wrong so far

java == <<cust, shown, tempoCount, keyOffset, maxvoice>>
channels == <<forced, value, pending>>
params == <<speed, key, voices>>
main == <<pc, then, restored, calls>>
config == <<file, heard>>
vars == <<state, java, thr, channels, params, die, paused, slot, taken, main,
          config, mishaps>>

MainCode == {"free", "wait", "faster", "slower", "saveWrite", "savePaused",
             "loadLocks", "loadTempo", "loadKey", "loadEnd"}
Commands == {"none", "speed", "key", "voices", "toggle", "jump", "stop"}
Slots == [cmd : Commands, arg : Int]
Empty == [cmd |-> "none", arg |-> 0]
Mishaps == {"kept", "early", "scanned", "torn", "late", "dropped"}
NoSetting == [on |-> {}, to |-> Default]
Files == [cust : [Settings -> BOOLEAN], shown : [Settings -> Values],
          tempoCount : Int, keyOffset : Int, maxvoice : Int]
Sounds == [forced : [Settings -> BOOLEAN], value : [Settings -> Values],
           speed : Int, key : Int]

isActive == state \in {"PLAYING", "PAUSED"}

TypeOK ==
    /\ state \in {"IDLE", "PLAYING", "PAUSED", "REQSTOP"}
    /\ cust \in [Settings -> BOOLEAN]
    /\ shown \in [Settings -> Values]
    /\ tempoCount \in Int /\ keyOffset \in Int /\ maxvoice \in 0..MaxVoices
    /\ thr \in {"none", "start", "load", "play", "drain"}
    /\ forced \in [Settings -> BOOLEAN]
    /\ value \in [Settings -> Values]
    /\ pending \in [on : SUBSET Settings, to : Values]
    /\ speed \in Int /\ key \in Int /\ voices \in 0..MaxVoices
    /\ die \in BOOLEAN /\ paused \in BOOLEAN
    /\ slot \in Slots /\ taken \in Slots
    /\ pc \in MainCode /\ then \in MainCode
    /\ file \in SUBSET Files /\ heard \in SUBSET Sounds
    /\ restored \in BOOLEAN
    /\ calls \in 0..MaxCalls
    /\ mishaps \in SUBSET Mishaps

Init ==
    /\ state = "IDLE" /\ thr = "none"
    /\ cust = [s \in Settings |-> FALSE] /\ forced = cust
    /\ shown = [s \in Settings |-> Default] /\ value = shown
    /\ pending = NoSetting
    /\ tempoCount = 0 /\ keyOffset = 0 /\ speed = 0 /\ key = 0
    /\ maxvoice = MaxVoices /\ voices = MaxVoices
    /\ die = FALSE /\ paused = FALSE
    /\ slot = Empty /\ taken = Empty
    /\ pc = "free" /\ then = "free"
    /\ file = {} /\ heard = {}
    /\ restored = FALSE /\ calls = 0
    /\ mishaps = {}

When(k, condition) == IF condition THEN {k} ELSE {}
Record(kinds) == mishaps' = mishaps \cup kinds

----------------------------------------------------------------------------
(* The main thread                                                         *)

Call == /\ pc = "free" /\ calls < MaxCalls
        /\ calls' = calls + 1
        /\ restored' = FALSE

Send(cmd, n) == slot' = [cmd |-> cmd, arg |-> n]

\* waitUntilReady, and on to the code c.
WaitThen(c) == pc' = "wait" /\ then' = c

Waited ==
    /\ pc = "wait" /\ slot = Empty
    /\ pc' = then /\ then' = "free"
    /\ UNCHANGED <<state, java, thr, channels, params, die, paused, slot, taken,
                   config, restored, calls, mishaps>>

NativeUnchanged == UNCHANGED <<thr, channels, params, die, paused, taken>>

\* JNIHandler.play, with resetVars; the song before is over.
Play ==
    /\ Call
    /\ state = "IDLE" /\ thr = "none"
    /\ state' = "PLAYING"
    /\ thr' = "start"
    /\ cust' = [s \in Settings |-> FALSE]
    /\ shown' = [s \in Settings |-> Default]
    /\ tempoCount' = 0 /\ keyOffset' = 0
    /\ UNCHANGED <<maxvoice, channels, params, die, paused, slot, taken, pc, then,
                   config, mishaps>>

Stop ==
    /\ Call
    /\ isActive
    /\ state' = "REQSTOP"
    /\ Send("stop", 0)
    /\ NativeUnchanged
    /\ UNCHANGED <<java, pc, then, config, mishaps>>

\* JNIHandler.pause, for the state and for the song.
JNIPause ==
    IF isActive
    THEN /\ state' = (IF state = "PAUSED" THEN "PLAYING" ELSE "PAUSED")
         /\ Send("toggle", 0)
    ELSE UNCHANGED <<state, slot>>

Pause ==
    /\ Call
    /\ isActive
    /\ JNIPause
    /\ NativeUnchanged
    /\ UNCHANGED <<java, pc, then, config, mishaps>>

\* The six buttons of the MIDI options; those for the speed count themselves.
Button(cmd, n) ==
    /\ Call
    /\ isActive
    /\ Send(cmd, n)
    /\ WaitThen(IF cmd # "speed" THEN "free" ELSE IF n > 0 THEN "faster" ELSE "slower")
    /\ NativeUnchanged
    /\ UNCHANGED <<state, java, config, mishaps>>

\* Faulty variant of Counted: counts in one direction only.
CountedUp ==
    /\ pc \in {"faster", "slower"}
    /\ pc' = "free"
    /\ tempoCount' = tempoCount + 1
    /\ NativeUnchanged
    /\ UNCHANGED <<state, cust, shown, keyOffset, maxvoice, slot, then, restored, calls,
                   config, mishaps>>

Counted ==
    /\ pc \in {"faster", "slower"}
    /\ pc' = "free"
    /\ tempoCount' = tempoCount + (IF pc = "faster" THEN 1 ELSE -1)
    /\ NativeUnchanged
    /\ UNCHANGED <<state, cust, shown, keyOffset, maxvoice, slot, then, restored, calls,
                   config, mishaps>>

\* midi_program_change and midi_volume_change with the bit that locks, for the
\* settings in lock, and with the one that unlocks, for the others in all.
\* What is locked is reported to JNIHandler.
Locked(all, lock, to) ==
    /\ forced' = [s \in Settings |-> IF s \in all THEN s \in lock ELSE forced[s]]
    /\ value' = [s \in Settings |-> IF s \in lock THEN to[s] ELSE value[s]]
    /\ shown' = [s \in Settings |-> IF s \in lock THEN to[s] ELSE shown[s]]
    /\ cust' = [s \in Settings |-> IF s \in all THEN s \in lock ELSE cust[s]]

LockMishaps(lock) ==
    When("early", thr \in {"start", "load"} /\ die /\ lock # {})
    \cup When("kept", thr = "none" /\ ~die /\ lock # {})
    \cup When("torn", pending.on \cap lock # {})

\* The dialog of a channel: the settings it shows are locked or given back to
\* the song, and a song that plays is started again where it is.
Dialog(s, on, v) ==
    /\ Call
    /\ isActive
    /\ LET lock == When(s, on) IN
       /\ Locked({s}, lock, [r \in Settings |-> v])
       /\ Record(LockMishaps(lock))
    /\ IF state = "PLAYING"
       THEN Send("jump", 0) /\ WaitThen("free")
       ELSE UNCHANGED <<slot, pc, then>>
    /\ UNCHANGED <<state, tempoCount, keyOffset, maxvoice, thr, pending, params, die,
                   paused, taken, config>>

\* save_cfg: a song that is not paused is paused first.
Save ==
    /\ Call
    /\ isActive
    /\ IF state = "PAUSED"
       THEN pc' = "savePaused" /\ UNCHANGED <<state, slot, then>>
       ELSE JNIPause /\ WaitThen("saveWrite")
    /\ NativeUnchanged
    /\ UNCHANGED <<java, config, mishaps>>

\* The five lines of the file; then the song goes on unless it was paused.
SaveWrite ==
    /\ pc \in {"saveWrite", "savePaused"}
    /\ file' = {[cust |-> cust, shown |-> shown, tempoCount |-> tempoCount,
                 keyOffset |-> keyOffset, maxvoice |-> maxvoice]}
    /\ heard' = IF thr # "play" THEN {}
                ELSE {[forced |-> forced, value |-> value, speed |-> speed, key |-> key]}
    /\ Record(When("late", taken.cmd \in {"key", "speed"}))
    /\ IF pc = "saveWrite" /\ isActive
       THEN JNIPause /\ WaitThen("free")
       ELSE pc' = "free" /\ UNCHANGED <<state, slot, then>>
    /\ NativeUnchanged
    /\ UNCHANGED <<java, restored, calls>>

\* load_cfg: a paused song goes on first.
Load ==
    /\ Call
    /\ isActive /\ file # {}
    /\ IF state = "PAUSED"
       THEN JNIPause /\ WaitThen("loadLocks")
       ELSE pc' = "loadLocks" /\ UNCHANGED <<state, slot, then>>
    /\ NativeUnchanged
    /\ UNCHANGED <<java, config, mishaps>>

\* A difference is sent and waited for, if there is one.
SendDifference(cmd, n, next) ==
    IF n = 0
    THEN pc' = next /\ UNCHANGED <<slot, then>>
    ELSE Send(cmd, n) /\ WaitThen(next)

\* Faulty variant of LoadLocks: what the file does not lock stays locked.
LoadLocksOnly ==
    /\ pc = "loadLocks"
    /\ \E f \in file :
          LET lock == {s \in Settings : f.cust[s]} IN
          /\ Locked(lock, lock, f.shown)
          /\ Record(LockMishaps(lock))
          /\ SendDifference("speed", f.tempoCount - tempoCount, "loadTempo")
    /\ UNCHANGED <<state, tempoCount, keyOffset, maxvoice, thr, pending, params, die,
                   paused, taken, config, restored, calls>>

\* Every channel is locked or unlocked; then the speed.
LoadLocks ==
    /\ pc = "loadLocks"
    /\ \E f \in file :
          LET lock == {s \in Settings : f.cust[s]} IN
          /\ Locked(Settings, lock, f.shown)
          /\ Record(LockMishaps(lock))
          /\ SendDifference("speed", f.tempoCount - tempoCount, "loadTempo")
    /\ UNCHANGED <<state, tempoCount, keyOffset, maxvoice, thr, pending, params, die,
                   paused, taken, config, restored, calls>>

\* The speed is counted; then the key, by its difference to what the last
\* callback said.
LoadTempo ==
    /\ pc = "loadTempo"
    /\ \E f \in file :
          /\ tempoCount' = f.tempoCount
          /\ SendDifference("key", f.keyOffset - keyOffset, "loadKey")
    /\ Record(When("late", taken.cmd = "key"))
    /\ NativeUnchanged
    /\ UNCHANGED <<state, cust, shown, keyOffset, maxvoice, config, restored, calls>>

LoadKey ==
    /\ pc = "loadKey"
    /\ \E f \in file :
          /\ keyOffset' = f.keyOffset
          /\ SendDifference("voices", f.maxvoice - maxvoice, "loadEnd")
    /\ Record(When("late", taken.cmd = "voices"))
    /\ NativeUnchanged
    /\ UNCHANGED <<state, cust, shown, tempoCount, maxvoice, config, restored, calls>>

\* The song's own configuration, loaded when it starts, starts it again.
LoadEnd ==
    /\ pc = "loadEnd"
    /\ restored' = TRUE
    /\ \/ pc' = "free" /\ UNCHANGED <<slot, then>>
       \/ Send("jump", 0) /\ WaitThen("free")
    /\ NativeUnchanged
    /\ UNCHANGED <<state, java, config, calls, mishaps>>

Handle == Waited \/ Counted \/ SaveWrite \/ LoadLocks \/ LoadTempo \/ LoadKey \/ LoadEnd
Listener ==
    \/ Play \/ Stop \/ Pause \/ Save \/ Load
    \/ \E b \in Buttons : Button(b[1], b[2])
    \/ \E s \in Settings : Dialog(s, FALSE, Default) \/ \E v \in Values : Dialog(s, TRUE, v)

----------------------------------------------------------------------------
(* The play thread                                                         *)

MainUnchanged == UNCHANGED <<main, config>>

\* A poll outside of the song proper: check_apply_control carries out a toggle
\* only.
Dropped == /\ slot' = Empty
           /\ paused' = (paused # (slot.cmd = "toggle"))
           /\ Record(When("dropped", slot.cmd \in {"speed", "key", "voices"}))

\* The song is over without RC_STOP in apply_controls: the locks stay.
Leave == /\ thr' = "none" /\ state' = "IDLE"
         /\ Record(When("kept", ~die /\ \E s \in Settings : forced[s]))

\* play_midi_file up to the loading: one poll, whatever it finds, then key and
\* speed start from the beginning and the key is reported.
Start ==
    /\ thr = "start"
    /\ thr' = "load"
    /\ Dropped
    /\ key' = 0 /\ speed' = 0 /\ keyOffset' = 0
    /\ UNCHANGED <<state, cust, shown, tempoCount, maxvoice, channels, voices, die, taken>>
    /\ MainUnchanged

\* A poll while the file is loaded, or while the last notes sound.
Poll ==
    /\ thr \in {"load", "drain"} /\ slot # Empty
    /\ IF slot.cmd = "stop"
       THEN slot' = Empty /\ Leave /\ UNCHANGED paused
       ELSE Dropped /\ UNCHANGED <<thr, state>>
    /\ UNCHANGED <<java, channels, params, die, taken>>
    /\ MainUnchanged

\* reset_midi, the prescan, which applies every program and clears die, and
\* reset_midi again for what is not locked; it reports the key each time.
Prepare ==
    /\ thr = "load"
    /\ thr' = "play"
    /\ die' = FALSE
    /\ forced' = [s \in Settings |-> forced[s] /\ ~die]
    /\ \E p \in [Programs -> Values] :
          /\ value' = [s \in Settings |-> IF ~forced'[s] THEN Default
                                          ELSE IF s \in Programs THEN p[s] ELSE value[s]]
          /\ Record(When("scanned", \E s \in Programs : forced'[s] /\ p[s] # value[s]))
    /\ keyOffset' = key
    /\ UNCHANGED <<state, cust, shown, tempoCount, maxvoice, pending, params, paused,
                   slot, taken>>
    /\ MainUnchanged

Playing == thr = "play" /\ taken = Empty /\ pending = NoSetting

\* Faulty variant of Event: does not look whether the setting is locked.
EventAnyway(s) ==
    /\ Playing /\ ~paused
    /\ \E v \in Values : pending' = [on |-> {s}, to |-> v]
    /\ UNCHANGED <<state, java, thr, forced, value, params, die, paused, slot, taken, mishaps>>
    /\ MainUnchanged

\* A program or volume event of the song looks for the lock first.
Event(s) ==
    /\ Playing /\ ~paused /\ ~forced[s]
    /\ \E v \in Values : pending' = [on |-> {s}, to |-> v]
    /\ UNCHANGED <<state, java, thr, forced, value, params, die, paused, slot, taken, mishaps>>
    /\ MainUnchanged

\* It then writes, and reports.
EventWrite ==
    /\ pending # NoSetting
    /\ pending' = NoSetting
    /\ value' = [s \in Settings |-> IF s \in pending.on THEN pending.to ELSE value[s]]
    /\ shown' = [s \in Settings |-> IF s \in pending.on THEN pending.to ELSE shown[s]]
    /\ UNCHANGED <<state, cust, tempoCount, keyOffset, maxvoice, thr, forced, params, die,
                   paused, slot, taken, mishaps>>
    /\ MainUnchanged

\* ctl_read: the slot is empty before the command is carried out.
Take ==
    /\ Playing /\ slot # Empty
    /\ slot' = Empty
    /\ taken' = slot
    /\ UNCHANGED <<state, java, thr, channels, params, die, paused, mishaps>>
    /\ MainUnchanged

\* aq_flush and skip_to: everything is reset, which reports the key, and the
\* song replayed silently up to where it is to go on.  What is locked is left
\* alone.
Restart ==
    /\ keyOffset' = key'
    /\ \E p \in [Settings -> Values] :
          value' = [s \in Settings |-> IF forced[s] THEN value[s] ELSE p[s]]

\* Faulty variant of Bounded: stops at the upper end only.
BoundedAbove(n) == IF n > MaxVoices THEN MaxVoices ELSE n

Bounded(n) == IF n < 0 THEN 0 ELSE IF n > MaxVoices THEN MaxVoices ELSE n

\* The commands that change the sound start it again; a seek does not while
\* the song is paused.  RC_VOICEINCR reports the voices; RC_VOICEDECR only
\* does when sync_restart fails, which it does not on Android.
Tune ==
    /\ taken.cmd \in {"speed", "key", "voices", "jump"}
    /\ speed' = (IF taken.cmd = "speed" THEN speed + taken.arg ELSE speed)
    /\ key' = (IF taken.cmd = "key" THEN key + taken.arg ELSE key)
    /\ IF taken.cmd = "jump" /\ paused THEN UNCHANGED <<value, keyOffset>> ELSE Restart
    /\ voices' = (IF taken.cmd = "voices" THEN Bounded(voices + taken.arg) ELSE voices)
    /\ maxvoice' = (IF taken.cmd = "voices" /\ taken.arg > 0 THEN voices' ELSE maxvoice)
    /\ taken' = Empty
    /\ UNCHANGED <<state, cust, shown, tempoCount, thr, forced, pending, die, paused,
                   slot, mishaps>>
    /\ MainUnchanged

Toggle ==
    /\ taken.cmd = "toggle"
    /\ paused' = ~paused
    /\ taken' = Empty
    /\ UNCHANGED <<state, java, thr, channels, params, die, slot, mishaps>>
    /\ MainUnchanged

\* Faulty variant of Halt: the locks are not given up with the song.
HaltKeeps ==
    /\ taken.cmd = "stop"
    /\ paused' = FALSE
    /\ taken' = Empty
    /\ thr' = "none" /\ state' = "IDLE"
    /\ UNCHANGED <<java, channels, params, die, slot, mishaps>>
    /\ MainUnchanged

\* RC_STOP: the next song starts without locks.
Halt ==
    /\ taken.cmd = "stop"
    /\ die' = TRUE
    /\ paused' = FALSE
    /\ taken' = Empty
    /\ thr' = "none" /\ state' = "IDLE"
    /\ UNCHANGED <<java, channels, params, slot, mishaps>>
    /\ MainUnchanged

\* The last event, and the end of its sound.
LastEvent ==
    /\ Playing /\ ~paused
    /\ thr' = "drain"
    /\ UNCHANGED <<state, java, channels, params, die, paused, slot, taken, mishaps>>
    /\ MainUnchanged

SongOver ==
    /\ thr = "drain"
    /\ Leave
    /\ UNCHANGED <<java, channels, params, die, paused, slot, taken>>
    /\ MainUnchanged

Thread ==
    \/ Start \/ Poll \/ Prepare \/ EventWrite \/ Take \/ Tune \/ Toggle \/ Halt
    \/ LastEvent \/ SongOver
    \/ \E s \in Settings : Event(s)

----------------------------------------------------------------------------
Next == Listener \/ Handle \/ Thread

Spec == Init /\ [][Next]_vars

----------------------------------------------------------------------------
(* Properties                                                              *)

Without(kinds) == mishaps \cap kinds = {}

\* Nothing is on its way between the two threads, and the song plays.
Quiet == pc = "free" /\ slot = Empty /\ taken = Empty /\ thr = "play"

\* The check marks the listener sees are the locks TiMidity has, in this song
\* and in the next.
LocksAgree == Quiet /\ Without({"kept", "early"}) => forced = cust

\* While a song plays its thread neither changes what is locked nor unlocks it,
\* whatever is replayed after a seek or a change of speed.
LockHolds ==
    [][thr = "play" /\ Thread /\ Without({"torn"}) =>
          /\ forced' = forced
          /\ \A s \in Settings : forced[s] => value'[s] = value[s]]_vars

\* A configuration that was saved and loaded again, into the same song or
\* another, brings back what was heard.
RoundTrip ==
    restored /\ Quiet /\ Without({"kept", "early", "scanned", "torn", "late", "dropped"}) =>
        \A h \in heard :
            /\ speed = h.speed /\ key = h.key
            /\ forced = h.forced
            /\ \A s \in Settings : forced[s] => value[s] = h.value[s]

\* What is shown and will be saved of speed and key is what is played.
CountsAgree ==
    Quiet /\ Without({"dropped", "late"}) =>
        tempoCount = speed /\ keyOffset = key

\* The number of voices shown, and saved, is the number there is: a change of
\* it is an event, CTLE_MAXVOICES.
VoicesTold == Quiet /\ mishaps = {} => maxvoice = voices
=============================================================================
