# TLA+ for Timidity AE

Timidity AE is an Android player: an activity with three fragments (files,
player, playlists), a service that plays, and native code that wraps TiMidity++
(MIDI and modules), SoX (audio files) and Android's own MediaPlayer. This
directory holds TLA+ modules translated from that code, TLC configurations that
check them on small instances, and proofs that TLAPS checks.

Paths below are relative to the repository; `J/` stands for
`src/com/xperia64/timidityae/`.

1. [The system](#the-system)
2. [Modules](#modules)
3. [Runs](#runs)
4. [What is proved](#what-is-proved)
5. [What the code does against its own words](#what-the-code-does-against-its-own-words)
6. [What is not modelled](#what-is-not-modelled)
7. [Plan](#plan)

## The system

### Threads

| thread | what runs there |
|---|---|
| main | the activity, the fragments, `MusicService`'s broadcast receiver and MediaPlayer's callbacks: one handler after another, none interrupts another |
| play thread | one per TiMidity or SoX song (`JNIHandler.playThread`); native code calls back into `JNIHandler` from here |
| watcher | one per song started by `MusicService.play()` or by an export; waits for the song to end and decides what comes next |
| dialog threads | one per progress dialog (`WavSaver`, `ConfigSaver`), and `DownloadTask`'s |

Nothing is locked, synchronized or volatile. What keeps the threads apart is the
order in which they read and write a few static fields. That is the hard part
of this program, and most of what is modelled.

### Components

| component | state | operations | what makes it correct |
|---|---|---|---|
| Command slot (`jni/timidity/helper/helper.c`, `interface/droid_c.c`) | `droid_rc`, `droid_arg` | `controlTimidity` stores, `ctl_read` loads and clears, `timidityReady` polls | no command is lost unless one is posted over another; taken once and in order; the poll ends and means "taken" |
| Playback (`J/JNIHandler.java`) | `state`, `mediaBackendFormat`, `playThread`, `currentWavWriter` | `play`, `stop`, `pause`, `seekTo`, the four waits, the callbacks of three backends | the state says what the backend does; one play thread at a time; each handler returns; a stop ends the song |
| TiMidity's control loop (`playmidi.c`, `aq.c`) | `play_pause_flag`, the place in the song | polls the slot while loading, playing, paused and draining | a pause lasts until the next toggle; a stop ends the song wherever it is |
| SoX player (`jni/sox/soxhelper/helper.c`) | `stopSox`, `jumps` | `soxPlay`, `soxSeek`, `soxStop`, `update_status` | the same |
| Playlists (`J/MusicService.java`, `TimidityActivity`, `PlaylistFragment`, `PlayerFragment`) | `playList`, the two shuffle tables, `currSongNumber`, `realSongNumber`, the modes, `Globals.plist`, `Globals.tmpplist` | select, next, previous, the two buttons, the watcher's automatic step | the selected song is started; the order is a permutation; the list shown is the one played |
| Watchers (`MusicService` 897-990, 386-439, 458-481) | `shouldAdvance`, `breakLoops` | wait for the start, for the end, then advance | one advance per song that ended by itself, none after a stop |
| Export (`WavSaver`, `WavWriter`, `write_new`, `write_curr`) | the writer, the dialog, `localfinished` | start, cancel, finish | the file reported as written is whole, the cancelled one is gone, the dialog closes |
| Song configuration (`save_cfg`, `load_cfg`, `TrackFragment`, the MIDI buttons, `midi_program_change`, `apply_controls`) | programs, volumes and their locks, tempo, key and voices, once in `JNIHandler` and once in TiMidity; the file | lock, unlock, the buttons, save, load; reset, prescan, replay, callbacks | both copies agree; a song does not touch what is locked; what was saved is what a load restores |
| Native libraries (`loadLib`, `unloadLib`, `prepareTimidity`, `reload_libs`) | `libsLoaded`, `libHandle`, entry points, `outputOpen` | load, unload, init | nothing is called through a library that is gone |
| Lyrics (`ctl_lyric`, `setCurrLyric`) | `lyric_buf`, `lyric_col` | append, new line | the column stays in the buffer |
| Start and downloads (`TimidityActivity`, `DownloadTask`) | `serviceStarted`, the queued song, the wake lock | announce, queue, download, cancel | the song asked for is played once, the lock is given back |

How they interact: the activity broadcasts commands (`msrv_cmd_*`) to the
service and the service broadcasts events (`ta_cmd_*`) back, both delivered in
order on the main thread. Lists do not travel in the broadcasts but in two
static fields. The service calls `JNIHandler`, which writes `state` and starts
a play thread. A playing TiMidity song is told things only through the command
slot. The end of a song is noticed by a watcher thread, which broadcasts the
next command to its own service.

Which behaviours are hard: a song that ends while a handler is half-way through
stopping, pausing or seeking it; commands posted over one another; two
selections or two list copies in flight; a watcher that wakes too late; an
export that starts while the last song is still leaving. `PROJECT.json` lists
each at its line under `hazards`, with the properties that cover it or the
reason why none does.

## Modules

| module | models | about |
|---|---|---|
| `CommandSlot` | abstract | what a slot of one command promises: posted, taken, removed |
| `Mailbox` | `helper.c` 432-446, `droid_c.c` 248-258, the callers in `JNIHandler` | the two globals at the granularity of single loads and stores; refines `CommandSlot` |
| `Playback` | `JNIHandler`, `MusicService.play/stop/pause`, the polls of `playmidi.c` and `aq.c`, `soxhelper/helper.c` | every read and write of the state by which two threads interact |
| `Jukebox` | abstract | what the player promises about playlists, without numbers |
| `PlaylistOrder` | `MusicService` 151-167, 214-317, 859-894, 968-990, 1013-1048; `selectedSong`; the buttons; `copy_plist` | one step per handler; refines `Jukebox` |
| `Autoplay` | `MusicService` 206-278, 859-979, 1050-1060, `waitForStop`, `waitForStable` | the watcher of every song against the main thread on `shouldAdvance` and `breakLoops` |
| `WavExport` | `WavSaver`, `WavWriter`, `MusicService` 365-481, the end of the play thread in `JNIHandler` | an export from the choice of its name to the closed file, with everything that can come between |
| `SongConfig` | `MusicService` 483-636, `TrackFragment`, `PlayerFragment` 700-754, `playmidi.c` 3386-3563, 6230-6246, 6378-6597, 8360-8656 | the two copies of what is set for a song, and the file they are kept in |
| `MailboxProofs`, `PlaybackProofs`, `PlaylistOrderProofs`, `SelectionProofs`, `PromiseProofs`, `AutoplayProofs`, `WavExportProofs`, `SongConfigProofs` | | theorems |
| `MCMailbox`, `MCPlayback`, `MCPlaylistOrder`, `MCAutoplay`, `MCWavExport`, `MCSongConfig` | | instances for TLC |

Definitions written beside an action and marked "Faulty variant" or "Mutant" are
never part of a specification: each is a plausible slip in that code, and shows
that a property would notice it.

### Mailbox

`controlTimidity` is two plain stores, a load and a read-modify-write;
`ctl_read` is two loads and two stores. The module lets the two stores of
either side take effect in either order, and the two loads of `ctl_read` too,
because nothing in the code orders them for another thread. A command is
represented by its number, an argument by the post it belongs to, so the
properties can say "old", "lost" and "twice". Only the kinds whose callers
behave differently are told apart: a jump is scaled and waited for, a toggle may
be waited for, a stop never is.

The slot loses commands by design; what holds is: a command posted into an
empty slot is in the slot or was taken, as long as no other was posted
(`LatestNotLost`); commands come out in order and once (`InOrder`); a command
is paired with the argument 0 or one no older than the last command returned
(`ArgAge`); when `waitUntilReady` returns, the command was taken
(`ReadyMeansTaken`), and it does return while the song polls (`WaitEnds`).

### Playback

The main thread is a program counter (`pc`) through the commands play, stop,
pause and seek; each play thread is a program counter (`thr[t]`)
through the TiMidity or SoX code. A step is one access to a shared variable.
The slot is atomic here, with the losses `Mailbox` shows it to have: a command
posted over another replaces it or disappears.

A song is its backend; how long it is, is left open (`LastEvent` may come at any
time or never). Three outcomes are free because they depend on files and on
Android: MediaPlayer's `prepare` may throw, a song may fail to load, a SoX
effect may be refused.

The code has races that it can lose. Each kind is recorded in the history
variable `accidents` at the step where it happens, and the properties say which
of them they do not survive:

| kind | where | what happens |
|---|---|---|
| `stale` | `ReqStop`, `Pausing`, `Resumed`, `Seeking`, `Restore`, `Recover` | a state is written that no longer follows from the one that was tested |
| `overwritten` | `Post` | a command is posted over an unread one |
| `unread` | `Post`, `Load`, `Drain` | a command is in the slot and the song will not poll again |
| `carried` | `Start` | a TiMidity song starts with a command or a pause of the one before |
| `ignored` | `TimEntry`, `SoxOpen` | a stop that came during the start is thrown away |
| `prepare` | `Start` | MediaPlayer failed |

Each exclusion is needed: without it TLC finds a behaviour in which the property
fails, and each is short enough to be read beside the code.

### PlaylistOrder

Handlers run to their end on the main thread, so each is one step; what
interleaves is the delivery of broadcasts in the two directions and the
watcher. A playlist is a sequence of songs, an index counts from 0 as in the
code, and `SparseIntArray.get` answers 0 for a missing key (`Get`). A shuffle is
any permutation. A song whose file cannot be played is heard as `NoSong`. A
handler that reads beyond the list throws, which ends the process (`Crashed`).

`KeepsPromise` says that all this implements `Jukebox`: an order, a position,
and commands served one after another. The refinement is excused by a history
variable, `slips`:

| kind | where | what happens |
|---|---|---|
| `selection` | `Select` | a song is selected while another selection has not been handled |
| `display` | `Select` | a song is selected from the shown list while that list is about to change |
| `early` | `ShufMode` | shuffle is switched on before there is a list |
| `late` | `Handled` | a command of the listener is handled while the watcher's own is waiting |
| `overlap` | `HandleSelect`, `ShufMode` | two copies of the list are on their way to the activity (excuses `ShownIsOrder` only) |

Again each was found to be necessary by running TLC without it.

Abstractions: the activity is not destroyed and created again, so `get_info` and
`get_plist` are not in the model; the folder and the highlighted row are left
out; `Ended` stands for the watcher's wait and decision as one step.

### Autoplay

What `PlaylistOrder` has as the one step `Ended` is here a thread per song: it
waits until the song is loaded, waits for the end, looks at the state, at
`shouldAdvance`, at `breakLoops`, clears the first and sends a command. The main
thread meanwhile handles play, next, stop and selections: it clears one flag and
sets the other, waits, stops the song, resets `breakLoops`, joins, sets
`shouldAdvance` again and starts the next song. Every access that another thread
can tell from its neighbour is a step. The song is reduced to loading, going,
leaving, over; `previous` differs from `next` only in the number, pause and seek
do not touch the flags, so they are left to the other modules.

`silent` says that a song ended by itself, not stopped, while nobody was handling
a command.
The mishaps, recorded in `excuses`:

| kind | where | what happens |
|---|---|---|
| `behind` | `Arm` | `shouldAdvance` is set again while a watcher of an earlier song has not looked yet: it then follows the new song as if it were its own |
| `late` | `Deliver`, `BeginSelect` | a command of the listener is handled while a watcher has passed its test, or its command is waiting |
| `doubled` | `BeginSelect` | the second of two selections finds the list taken |

Without one of them TLC finds a counterexample to each property that names it.
`shouldAdvance` carries the whole protocol: with `TestBreak` ignoring
`breakLoops` all properties still hold, with `BeginPlay` not clearing
`shouldAdvance` they do not.

### WavExport

An export has four actors: the activity, which shows a progress dialog
(`dlg[e]`, whose thread also is the one that stops the song on a cancel), the
main thread in the middle of `write_new` or `write_curr` (`pc`, `handled`), the
watcher each of these starts (`watch[e]`), and the play thread (`thr[t]`), which
writes, closes the file in `finishOutput` and opens it once more to complete the
header. They share the state, the slot, `currentWavWriter` (`current`, `open`),
`breakLoops` and one field of the activity for the saver that is to be told
(`special`).

Abstractions: `Playback` takes the test and the store of `JNIHandler`'s state
apart, here they are one step, and what can come between two of them and the
song is kept; every export has a file of its own in a directory that can be
written to, so nothing is renamed afterwards; the song is a MIDI file with no
configuration beside it; `file` says no more of the content than whether the
header is complete (`raw`, `patched`) or is all there is (`stub`).

| kind | where | what happens |
|---|---|---|
| `overlap` | `StartNew` | the song of the export starts while the thread of the last one is not gone: the wait is for `IDLE`, which two callbacks write before the thread ends |
| `refused` | `StartNew`, `StartCurr` | the file is gone, or the song is over: there is a writer or a dialog and no song |
| `early` | `WatchActive`, `WatchCurr` | a watcher takes a state of another moment (a pause, a seek, the second `IDLE`) for the end of its song |
| `mistaken` | `Deliver` | a notice of one export reaches the saver of the next |
| `stopped` | `Stop`, `DialogStop` | another stop ended a song that was being written |
| `ignored`, `overwritten`, `unread` | `Started`, `PostMishaps` | a command is thrown away, replaced, or posted to nobody |
| `stale` | `Sought` | `seekTo` restores a state that is over |
| `ahead` | `DialogStop` | the cancel comes before the song it is for |
| `missed` | `SongOver` | the song is over before its watcher saw it play |

`FairSpec` states the fairness that the code's threads have. No run uses it:
that a dialog closes is stated as `DialogCloses`, an invariant of the states in
which nothing is under way, which needs no fairness.

### SongConfig

Programs and volumes are locked per channel in `forced_instrument` and
`forced_volume` of TiMidity and shown from `custInst` and `custVol` of
`JNIHandler`; speed, key and voices are counted on both sides. Three ways lead
from one copy to the other: a lock is a native call on the main thread into
the tables the play thread reads; a button is a command in the slot; program,
volume, key and voices come back by callbacks of the play thread. A reset, the
prescan of a song and the replay after a seek or a change of speed rewrite what
is not locked. `save_cfg` and `load_cfg` pause and resume the song, wait for the
slot and reckon with `JNIHandler`'s copies only.

Abstractions: the state of the player follows its commands without the races of
`Playback` (`LOADING` and `SEEKING` are left out); a setting is a program or a
volume of a channel, and a dialog sets one at a time; `RC_SPEEDUP` and
`RC_SPEEDDOWN` are one command with a signed argument, and so are those for the
voices, whose buttons step by one and not by five; TiMidity's own reduction of
voices under load, loading of other instruments and files not written by
this program are left out.

| kind | where | what happens |
|---|---|---|
| `kept` | `Leave`, `Locked` | a song ends by itself with locks, or something is locked after it: TiMidity clears its locks only when the song before ended by `RC_STOP` |
| `early` | `Locked` | something is locked while the song loads, and the reset that follows drops it |
| `scanned` | `Prepare` | the prescan of the song writes a program although it is locked |
| `torn` | `Locked` | a lock comes between the test and the write of an event |
| `late` | `SaveWrite`, `LoadTempo`, `LoadKey` | a command was taken and not carried out when the copies are read |
| `dropped` | `Dropped` | a poll outside of the song proper throws a command away |

## Runs

| run | instance | shows |
|---|---|---|
| `mailbox` | 4 posts of 3 kinds | the properties of the slot and the refinement; `LatestNotLost` is left to its proof |
| `playback_timidity` | play, pause, seek, stop of TiMidity songs | pause, termination |
| `playback_backends` | the same for SoX and MediaPlayer | termination, with error paths and the watcher's recovery |
| `playback_mixed` | songs of all three, at most 2 kinds of race per behaviour | late steps of one backend meeting a song of another; one thread at a time, a true state, stops that are kept, waits that have somebody to end them |
| `playlist_order` | lists of 3 songs and of 1, 2 broadcasts in flight, at most 1 kind of slip per behaviour | all of `PlaylistOrder` and the refinement of `Jukebox` |
| `autoplay` | 2 songs on either backend, 1 request in flight | all of `Autoplay`, liveness included |
| `wav_export` | 2 exports of either kind, 2 threads, at most 1 kind of mishap per behaviour | what is reported as written is, an open file is closed by its own song's thread, a cancel stops the song, no dialog stays |
| `song_config` | one program with 2 values, 1 voice, 3 of the buttons, 7 actions of the listener, at most 1 kind of mishap per behaviour | locks and counters agree, a song leaves locks alone, save and load are a round trip |
| `playlist_straight_arrow`, `autoplay_loops`, `wav_cancel`, `song_voices` | the smallest instance each needs | counterexamples to what the repository says of itself |

Bounds, and why they are enough:

- `MaxPosts = 4`: a command that is lost needs one before it and one after it,
  an argument that is too old needs two before it. The proofs hold for any
  number.
- two play threads in every run of `Playback`: enough for a second song to start
  while the first thread is still leaving, which is what `SingleThread` denies.
  Two threads and two exports in `WavExport`, where that can happen: one export
  whose thread is leaving and one that takes its writer or its notice for its own.
- one kind of race per behaviour (`OneSlip`, `FewMishaps`; two in `playback_mixed`): the states left
  out are those in which two exclusions apply at once, and every property that
  names both is true there anyway. Behaviours with the same kind twice are in.
- lists of 3 and 1 songs: 3 is the least for which next, previous and a swapped
  permutation differ from each other and from their inverses; 1 is the special
  case of the code; a shorter list after a longer one is what makes an index
  go out of range. The proofs hold for all lists.
- two broadcasts in flight: one to be handled and one that overtakes its data;
  `Ended` may add a third.
- two songs in `Autoplay`: one that ends and one that its watcher can mistake
  for its own. One request of the listener waiting (a selection is two
  broadcasts); two in `autoplay_loops`, where a selection must meet another.
- seven actions of the listener in `SongConfig`: a song, a lock, a save, a stop,
  another song, a load and one more is the round trip over two songs. One
  setting, since no step couples two of them; volumes differ from programs in
  the prescan only, are in `song_voices` and in the proofs, and an instance with
  a program, a volume and six actions was checked once (13 million states).

Deadlock is checked for `Mailbox` and `Autoplay`. It is not for `Playback`, where the main
thread can really wait for ever once a race was lost (`HandlersReturn` says
which), nor for `PlaylistOrder`, where the process is gone after an exception,
nor for `WavExport` and `SongConfig`, where the bounded numbers of exports and
actions come to an end and a wait for a song that is over never does.

Fairness: in `Mailbox`, that `controlTimidity` goes on and that a playing song
polls, which it does for every buffer and in a loop while paused; in `Playback`,
that the main thread goes on with a command it has begun, that watchers run and
that a play thread goes on by itself; in `Autoplay`, that broadcasts are
delivered, handlers go on and watchers run, and that a song that was asked to
stop ends. A song may be endless: `LastEvent` is
not fair. Nobody has to press a button.

## What is proved

All for any values of the constants; `tlapm` checks every leaf.

| theorem | states | argument |
|---|---|---|
| `MailboxProofs!NotLost`, `ReadyIsTaken`, `ReturnedInOrder`, `ArgumentsNotOld` | `LatestNotLost`, `ReadyMeansTaken`, `InOrder`, `ArgAge` | inductive invariant `IInv`: the slot holds the latest command or none, a command being taken is older than one posted over it, no argument is older than the last command returned |
| `MailboxProofs!Refinement` | `RefinesSlot` | each load or store is a step of `CommandSlot` or none: a command is posted by the store of `droid_rc`, taken by its load, removed by the store of 0 |
| `Typing` of every component (that of `PlaylistOrder` in `SelectionProofs`) | `TypeOK` | by cases over the actions; in `WavExport` together with `Served`, that a handler knows its export and a notice finds a saver |
| `PlaybackProofs!OnlyPlayThread`, `OneThread` | `ThreadInv`, `SingleThread` | `SingleThread` is not inductive. `ThreadInv` adds that the thread alive is `playThread`, that it is over once the join is passed, and that the backend is MediaPlayer only with no thread: that is why `waitForStop` may skip the join there |
| `PlaybackProofs!StateHolds` | `StateIsTrue` | `StateInv` says what each state means while a handler is half done: a stop requested but not yet posted to MediaPlayer, a seek whose old state is still to be restored; it holds until a write meets another state than the one tested ("stale") |
| `PlaybackProofs!PauseHolds` | `PauseAgrees` | `PauseInv`: the pause flag of the song, turned over by the toggle in the slot if there is one and by the one the main thread is about to post, is what the state wants |
| `PlaybackProofs!StopKept` | `StopIsKept` | the safety half of `StopEnds`. `StopInv`: a thread is told in the way of its backend and never before it is past its start; `IDLE`, `ERROR` and `STOPPING` each say where the thread can still be. Then a thread that was told stays told until it writes the state |
| `PlaybackProofs!Served` | `NeverFrozen` | the safety half of `HandlersReturn`: from `StateInv`, `StopInv` and the slot having a reader (`ReadHeld`), every state in which a handler waits has the thread that ends the wait |
| `PlaylistOrderProofs!OrderIsPermutation` | `OrderInv` | every handler that replaces the list replaces the tables; the inverse of a bijection is one |
| `PlaylistOrderProofs!NumbersAgree` | `CurrentIsReal` | needs `Chain`, that shuffle messages carry successive modes (the button counts by itself and the service trusts it), `ModeFixes`, that `fixedShuffle` is false exactly in mode 1 unless shuffle was early, and `RealInList` |
| `SelectionProofs!ShownInOrder` | `ShownIsOrder` | `Shows`: `Globals.tmpplist` is the order of the service whenever the activity is told to fetch it, or null after an overlap, and `Globals.plist` is not null only while a selection is under way |
| `SelectionProofs!NeverCrashes`, `SelectedIsStarted` | `NoCrash`, `HeardIsSelected` | `Chosen`: at most one selection is pending, and its number fits the list it will be looked up in, which nothing ahead of it in the queue replaces; the two numbers of the current song stay within the list |
| `PromiseProofs!Kept` | `KeepsPromise` | no further invariant. An order is the list taken through a permutation (`OrderOfPlaces`), so that two orders of a list are reorderings of each other (`OrdersReorder`: one permutation after the inverse of the other). The song at the current place is the one the list has under the other number (`CurrentSong`), before a change of the shuffle mode and after it. The queue is what is asked for, message by message (`AskedSent`, `AskedServed`); nothing of the box's own is in it behind the message served unless `late`, so that there is nothing to forget. Then one lemma for each handler |
| `AutoplayProofs!StopHolds`, `AdvancesOnce`, `GoesOnForOwnSong` | `StaysStopped`, `OneAdvance`, `DecidesForOwnSong` | none is inductive. `Quiet`: `shouldAdvance` is false from the start of a command to the start of a song. `OwnInv`: only the last song has a living watcher, it decides only while no command is handled, and once its command is sent nobody is left to send another. `PlayInv` and `WaitInv` tie the state, the backend and the watcher's wait to its own song, `SilentInv` says that a song that is over with `shouldAdvance` still set ended by itself, and `StopInv` that after a stop neither flag, watcher nor queue can start one |
| `AutoplayProofs!NextComes` | `NextIsComing` | the safety half of `GoesOn`, and true although commands cross ("late"), so that the invariants above do not serve. `Watched` and `Armed`: once a song is armed no former watcher is left and the flags stand; `Follows` keeps them while the song plays for the listener, `Coming` through the tests of its watcher; `Orders`, that only the listener stops, is what `Follows` needs |
| `WavExportProofs!FilesAreAttended` | `WriterHasThread` | `Toggled`: `write_curr` finds the state `PAUSED` and the slot empty only if its own toggle was taken by a thread whose song is not over; then `Attended`, that an open file has a thread before its `finishOutput`, is inductive |
| `WavExportProofs!OwnThreadClosesIt` | `OwnThreadCloses` | adds `Single`, one thread unless songs overlapped, and `Own`, that this thread belongs to the export whose file is open |
| `WavExportProofs!CancelsStop` | `CancelStops` | `Asked`: no command is left to come for a cancelled export unless the cancel was ahead; with `Single` nobody but its own thread takes the stop |
| `WavExportProofs!DialogsClose` | `DialogCloses` | `InTurn`: commands are served in order and the dialog shown is the last one's. `Told`: its saver is told by a request, handler, watcher or notice that is still there. `Heard` (with `Sounding`, about the seek of `write_curr`): between commands an active state has a song; `Awaited`: a watcher that waits for its song has one |
| `WavExportProofs!WhatIsReportedEnded` | `WroteMeansEnded` | `Owned`: the song of an export is older than every command still to come. `Heeded`: a stop in the slot has a song to read it. `Written`: the song of an export goes into its file. `Ending`: whoever says that the last export has finished says so of one that was written to its end or cancelled |
| `SongConfigProofs!LocksHold` | `LockHolds` | `TornInv`: a setting an event found unlocked still is when the event writes |
| `SongConfigProofs!LocksAreAgreed` | `LocksAgree` | `AgreeInv` follows the locks through a song's life: equal while it plays; while it loads, either equal or about to be dropped, with none shown; none left between songs unless `RC_STOP` ended the last |
| `SongConfigProofs!CountsAreAgreed` | `CountsAgree` | `CountInv` adds what is still to be carried out - the command in the slot and the one taken - to what is played, and what the main thread is about to count to what is shown; a command that counts is always waited for, so none is written over |
| `SongConfigProofs!RestoredIsHeard` | `RoundTrip` | `FileInv`: the file says what was heard when it was written. `ShownInv`: what is locked is shown with the value it has. `RestoreInv`: after each step of `load_cfg`, so much of the file has been sent. With `AgreeInv` and `CountInv` what was sent is what is played |

Assumptions: those named in the modules (bounds are natural numbers, lists are
non-empty sequences, `NoSong` and `Crashed` are no songs). The invariants were
checked with TLC first.

Model-checked only: liveness (`WaitEnds`, `HandlersReturn`, `StopEnds`, `GoesOn`), which
is beyond the prover. For the last three the part that is not about fairness is a
theorem: `NeverFrozen`, `StopIsKept` and `NextIsComing` say that whenever something
is waited for, the thread that brings it is there and in a place from which it can
only go on. What TLC adds is that these places are left, one after the other, by
steps that are fair. Every invariant, every action property and both refinements of
the passing runs are theorems.

## What the code does against its own words

- `playlist_straight_arrow`: the help says that with the straight arrow a
  playlist stops when it has finished. The test uses the song's number in the
  list, so a shuffled list goes on, or stops early; a list of one song never
  stops at all.
- `autoplay_loops`: the help says that with the double arrow the playlist loops.
  After two quick selections the song that plays is the last one.
- `wav_cancel`: the settings say that a partial conversion is deleted unless it
  is kept. The file is deleted without waiting for the play thread, whose
  `finishOutput` creates it again with nothing but a header. (The setting itself
  is stored under one key, `settings_root.xml:44`, and read under another,
  `Constants.java:97`; in the model it is a constant of either value.)
- `song_voices`: a change of the number of voices is an event that is to be
  told. A decrease is not told on Android, so the number shown stays, is saved,
  and a load reckons with it.

## What is not modelled

Third-party code, which is nine tenths of the repository: TiMidity's synthesizer,
its other interfaces, its readers of formats and its tools; SoX and its effects;
the codecs and their tables. The program reaches it through the entry points
that are modelled, and its own behaviour is numerical, not a protocol. Of
TiMidity, what is modelled is the control loop, the locks and the parameters.

Drawing, art, the lyrics, the seek bar, the widget and the preference screens;
file listings and Android's document provider; the drag and drop of
`DynamicListView`; the choice of a backend by the file's type. They run on the
main thread and keep nothing that another thread changes, with the exceptions
listed under `hazards`. The encoding of `ObjectSerializer`, the contents of
`WavWriter`'s header and `ConfigSaver`'s choice of a file name are left out of
the modules of their components.

Memory reclaimed by the system, an activity that is recreated, and the process
being killed are not modelled. Weak memory is modelled for the command slot
only: elsewhere each access is taken to become visible at once, which Java does
not promise for these plain fields.

## Plan

What would come next, in this order; each module with its runs, mutants and map.

1. `NativeLib`: load, unload, init, reload with failures in the middle.
2. `Startup` and `Download`: the queued song, the announcement, the lock; the wake
   lock and the notification, which `Autoplay` leaves out.
3. `Lyrics`, `DragList` (DynamicListView), `WavHeader` with the width of its
   sizes, `ObjectSerializer` as operators checked against a reference.
