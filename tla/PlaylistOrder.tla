--------------------------- MODULE PlaylistOrder ---------------------------
(***************************************************************************)
(* Which song is played: the playlist and shuffle bookkeeping of           *)
(* MusicService, together with the two static fields through which lists   *)
(* travel (Globals.plist from the activity to the service, Globals.tmpplist *)
(* back) while only a song number travels in the broadcast.                *)
(*                                                                         *)
(* Every handler runs to its end on the main thread, so each is one step;  *)
(* what interleaves is the delivery of broadcasts, the clicks and the      *)
(* watcher thread, which asks for the next song when one has ended.        *)
(* Playing itself is the subject of Playback; here a song is heard or not. *)
(* A list is a sequence of songs, <<>> stands for null.                    *)
(***************************************************************************)
EXTENDS Integers, Sequences, Functions

CONSTANTS
    Lists,      \* the playlists a song can be selected from
    MaxPending, \* bound on the broadcasts waiting for the service
    NoSong,     \* nothing is heard
    Crashed     \* a handler threw, and the process is gone

ASSUME ListsAssumption == \A list \in Lists : list \in Seq(Range(list)) /\ list # <<>>
ASSUME MaxPendingAssumption == MaxPending \in Nat \ {0}

VARIABLES
    playList, shuffledIndices, reverseShuffledIndices,
    currSongNumber, realSongNumber, loopMode, shuffleMode, fixedShuffle,
    heard,      \* the song being heard, NoSong or Crashed
    plist,      \* Globals.plist
    tmpplist,   \* Globals.tmpplist
    currPlist,  \* the current playlist of the playlist fragment
    path,       \* the list shown when the fragment views it
    buttonMode, \* shuffleMode of the player fragment
    toService,  \* broadcasts for the service, in order
    toUi,       \* number of copy_plist broadcasts for the activity
    slips       \* history: the kinds of mishap met so far

order == <<playList, shuffledIndices, reverseShuffledIndices>>
place == <<currSongNumber, realSongNumber>>
modes == <<loopMode, shuffleMode, fixedShuffle>>
ui == <<currPlist, path, buttonMode>>
vars == <<order, place, modes, heard, plist, tmpplist, ui, toService, toUi, slips>>

Songs == UNION {Range(list) : list \in Lists}
ASSUME OutcomeAssumption == NoSong \notin Songs /\ Crashed \notin Songs \union {NoSong}

Index(list) == 0..(Len(list) - 1)
SongAt(list, i) == list[i + 1]
Inverse0(p) == [j \in DOMAIN p |-> CHOOSE i \in DOMAIN p : p[i] = j]
Shuffles(list) == Bijection(Index(list), Index(list))

\* SparseIntArray.get
Get(array, i) == IF i \in DOMAIN array THEN array[i] ELSE 0

\* The playlist in the order it is played.
InOrder(list, p, mode) ==
    IF mode = 1 THEN [i \in 1..Len(list) |-> SongAt(list, p[i - 1])] ELSE list
Order == InOrder(playList, shuffledIndices, shuffleMode)

Cmd(c, auto) == [cmd |-> c, num |-> -1, copy |-> FALSE, song |-> NoSong, auto |-> auto]
SelectCmd(n, cp, s) == [cmd |-> "select", num |-> n, copy |-> cp, song |-> s, auto |-> FALSE]
Waiting(test(_)) == \E i \in DOMAIN toService : test(toService[i])
Slip(kind, occurs) == IF occurs THEN slips \union {kind} ELSE slips

Mishaps == {"selection", "display", "overlap", "early", "late"}

Init ==
    /\ playList = <<>>
    /\ shuffledIndices = [i \in Index(<<>>) |-> i]
    /\ reverseShuffledIndices = shuffledIndices
    /\ currSongNumber = -1
    /\ realSongNumber = -1
    /\ loopMode = 1
    /\ shuffleMode = 0
    /\ fixedShuffle = TRUE
    /\ heard = NoSong
    /\ plist = <<>> /\ tmpplist = <<>>
    /\ currPlist = <<>> /\ path = <<>>
    /\ buttonMode = 0
    /\ toService = <<>> /\ toUi = 0
    /\ slips = {}

-----------------------------------------------------------------------------
(* The activity. *)

Room == heard # Crashed /\ Len(toService) + toUi < MaxPending
Send(msgs) == toService' = toService \o msgs

\* selectedSong: the list goes into Globals.plist, its number into a broadcast.
\* A song of the shown current playlist is selected with copyPlist = false.
Select(files, n, copyPlist) ==
    /\ Room
    /\ n \in Index(files)
    /\ plist' = files
    /\ currPlist' = IF copyPlist THEN files ELSE currPlist
    /\ Send(<<Cmd("stop", FALSE), SelectCmd(n, copyPlist, SongAt(files, n))>>)
    /\ slips' = slips \union
         (IF Waiting(LAMBDA m : m.cmd = "select") THEN {"selection"} ELSE {}) \union
         (IF ~copyPlist /\ (toService # <<>> \/ toUi > 0) THEN {"display"} ELSE {})
    /\ UNCHANGED <<order, place, modes, heard, tmpplist, path, buttonMode, toUi>>

\* The buttons of the player, the notification and the headset.
Press(c) ==
    /\ Room
    /\ Send(<<Cmd(c, FALSE)>>)
    /\ UNCHANGED <<order, place, modes, heard, plist, tmpplist, ui, toUi, slips>>

\* The shuffle button counts its own mode and sends it.
ShuffleButton ==
    /\ Room
    /\ buttonMode' = (buttonMode + 1) % 3
    /\ Send(<<[Cmd("mode", FALSE) EXCEPT !.num = buttonMode']>>)
    /\ UNCHANGED <<order, place, modes, heard, plist, tmpplist, currPlist, path, toUi, slips>>

LoopMode ==
    /\ heard # Crashed
    /\ loopMode' = (loopMode + 1) % 3
    /\ UNCHANGED <<order, place, shuffleMode, fixedShuffle, heard, plist, tmpplist,
                   ui, toService, toUi, slips>>

\* The fragment shows the current playlist again (getPlaylists).
OpenCurrent ==
    /\ heard # Crashed
    /\ path' = currPlist
    /\ UNCHANGED <<order, place, modes, heard, plist, tmpplist, currPlist, buttonMode,
                   toService, toUi, slips>>

\* ta_cmd_copy_plist: the list is fetched from Globals.tmpplist, once.
CopyPlist ==
    /\ heard # Crashed
    /\ toUi > 0
    /\ toUi' = toUi - 1
    /\ currPlist' = tmpplist
    /\ path' = tmpplist
    /\ tmpplist' = <<>>
    /\ UNCHANGED <<order, place, modes, heard, plist, buttonMode, toService, slips>>

-----------------------------------------------------------------------------
(* The service. *)

Serving(c) == heard # Crashed /\ toService # <<>> /\ Head(toService).cmd = c
Served == toService' = Tail(toService)
Handled(more) ==
    /\ Served
    /\ slips' = slips \union more \union
         (IF \E i \in 2..Len(toService) : toService[i].auto THEN {"late"} ELSE {})

\* play() with the values the handler has stored before.
play ==
    IF playList' # <<>> /\ currSongNumber' >= 0
    THEN /\ realSongNumber' = IF shuffleMode = 1 THEN Get(shuffledIndices', currSongNumber')
                                                 ELSE currSongNumber'
         /\ heard' \in IF realSongNumber' \in Index(playList')
                       THEN {NoSong, SongAt(playList', realSongNumber')} ELSE {Crashed}
    ELSE UNCHANGED <<realSongNumber, heard>>

\* Mutant: the reverse table is filled with the pair the wrong way round.
ReverseNotInverse(list) == \E p \in Shuffles(list) :
    /\ shuffledIndices' = p
    /\ reverseShuffledIndices' = p

genShuffledPlist(list) == \E p \in Shuffles(list) :
    /\ shuffledIndices' = p
    /\ reverseShuffledIndices' = Inverse0(p)

\* Mutant: the list is shown as it was loaded.
SendUnshuffled ==
    /\ tmpplist' = playList'
    /\ toUi' = toUi + 1

\* The order to show, through Globals.tmpplist; a list not fetched yet is lost.
SendPlist ==
    /\ tmpplist' = Order'
    /\ toUi' = toUi + 1
Overlap == IF toUi > 0 THEN {"overlap"} ELSE {}

\* Mutant: the order of the old list is kept for the new one.
LoadKeepsOrder(num) ==
    /\ playList' = plist
    /\ currSongNumber' = num
    /\ UNCHANGED <<shuffledIndices, reverseShuffledIndices>>

\* Mutant: the number is not looked up in the new order.
LoadUnmapped(num) ==
    /\ playList' = plist
    /\ genShuffledPlist(plist)
    /\ currSongNumber' = num

LoadPlist(num) ==
    /\ playList' = plist
    /\ genShuffledPlist(plist)
    /\ currSongNumber' = IF shuffleMode = 1 THEN Get(reverseShuffledIndices', num) ELSE num

PickSong(num) ==
    /\ currSongNumber' = num
    /\ UNCHANGED order

\* msrv_cmd_load_plist_play: whatever list is in Globals.plist now is taken.
HandleSelect ==
    /\ Serving("select")
    /\ UNCHANGED <<modes, ui>>
    /\ Handled(IF plist # <<>> THEN Overlap ELSE {})
    /\ IF plist = <<>>
       THEN UNCHANGED <<order, place, heard, plist, tmpplist, toUi>>
       ELSE /\ IF Head(toService).copy THEN LoadPlist(Head(toService).num)
                                       ELSE PickSong(Head(toService).num)
            /\ plist' = <<>>
            /\ SendPlist
            /\ play

\* Mutant: the last song is followed by the one after it.
NextNoWrap ==
    IF playList # <<>> /\ currSongNumber >= 0
    THEN currSongNumber' = currSongNumber + 1
    ELSE UNCHANGED currSongNumber

next ==
    IF playList # <<>> /\ currSongNumber >= 0
    THEN IF Len(playList) = 1 THEN UNCHANGED currSongNumber
         ELSE IF shuffleMode = 2 THEN currSongNumber' \in Index(playList) \ {currSongNumber}
         ELSE currSongNumber' = IF currSongNumber + 1 >= Len(playList) THEN 0
                                ELSE currSongNumber + 1
    ELSE UNCHANGED currSongNumber

previous ==
    currSongNumber' = IF playList = <<>> \/ currSongNumber < 0 THEN currSongNumber
                      ELSE IF currSongNumber = 0 THEN Len(playList) - 1
                      ELSE currSongNumber - 1

HandlePlay ==
    /\ \/ Serving("next") /\ next
       \/ Serving("prev") /\ previous
       \/ Serving("play") /\ UNCHANGED currSongNumber
    /\ Handled({})
    /\ UNCHANGED <<order, modes, plist, tmpplist, ui, toUi>>
    /\ play

HandleStop ==
    /\ Serving("stop")
    /\ Handled({})
    /\ heard' = NoSong
    /\ UNCHANGED <<order, place, modes, plist, tmpplist, ui, toUi>>

\* Mutant: the number is taken for an index of the order.
ShuffleOnUnmapped ==
    /\ fixedShuffle' = FALSE
    /\ genShuffledPlist(playList)
    /\ UNCHANGED currSongNumber

\* Mutant: the number is not restored.
ShuffleOffKeeps ==
    /\ fixedShuffle' = TRUE
    /\ UNCHANGED <<shuffledIndices, reverseShuffledIndices, currSongNumber>>

\* msrv_cmd_shuf_mode: into mode 1 the number becomes an index of the shuffled
\* order, out of it (fixedShuffle) a number of the list again.
ShuffleOn ==
    /\ fixedShuffle' = FALSE
    /\ \/ genShuffledPlist(playList)    \* reShuffle is set
       \/ UNCHANGED <<shuffledIndices, reverseShuffledIndices>>
    /\ currSongNumber' = Get(reverseShuffledIndices', currSongNumber)

ShuffleOff ==
    /\ currSongNumber' = IF fixedShuffle THEN currSongNumber ELSE realSongNumber
    /\ fixedShuffle' = TRUE
    /\ UNCHANGED <<shuffledIndices, reverseShuffledIndices>>

ShufMode ==
    /\ Serving("mode")
    /\ Served
    /\ shuffleMode' = Head(toService).num
    /\ IF playList = <<>>
       THEN /\ slips' = Slip("early", shuffleMode' = 1)
            /\ UNCHANGED <<order, currSongNumber, fixedShuffle, tmpplist, toUi>>
       ELSE /\ slips' = slips \union Overlap
            /\ IF shuffleMode' = 1 THEN ShuffleOn ELSE ShuffleOff
            /\ UNCHANGED playList
            /\ SendPlist
    /\ UNCHANGED <<realSongNumber, loopMode, heard, plist, ui>>

\* The watcher after the end of a song: it decides with the number the song has
\* in the list (songIndex), whatever the order is.
Ended ==
    /\ heard \in Songs
    /\ heard' = NoSong
    /\ LET size == Len(playList)
           more == realSongNumber + 1 < size
       IN  toService' = toService \o
              (IF size > 1 /\ ((more /\ loopMode = 0) \/ loopMode = 1) THEN <<Cmd("next", TRUE)>>
               ELSE IF loopMode = 2 \/ size = 1 THEN <<Cmd("play", TRUE)>> ELSE <<>>)
    /\ UNCHANGED <<order, place, modes, plist, tmpplist, ui, toUi, slips>>

Next ==
    \/ \E files \in Lists : \E n \in Index(files) : Select(files, n, TRUE)
    \/ \E n \in Index(path) : Select(path, n, FALSE)
    \/ \E c \in {"next", "prev", "play", "stop"} : Press(c)
    \/ ShuffleButton \/ LoopMode \/ OpenCurrent \/ CopyPlist
    \/ HandleSelect \/ HandlePlay \/ HandleStop \/ ShufMode
    \/ Ended

Spec == Init /\ [][Next]_vars

-----------------------------------------------------------------------------
(* What must hold. *)

\* TypeOK: the variables have the types their users rely on.
TypeOK ==
    /\ playList \in Lists \union {<<>>} \union Seq(Songs)
    /\ DOMAIN shuffledIndices = Index(playList)
    /\ currSongNumber \in Int /\ realSongNumber \in Int
    /\ loopMode \in 0..2 /\ shuffleMode \in 0..2 /\ fixedShuffle \in BOOLEAN
    /\ heard \in Songs \union {NoSong, Crashed}
    /\ toUi \in Nat
    /\ slips \subseteq Mishaps

\* The shuffled order is a permutation of the playlist and the reverse table its
\* inverse, whichever handlers replaced the list, the order or neither: every
\* song comes once a round and the number of a song is found again
\* (genShuffledPlist is called from two handlers and skipped in both at times).
OrderInv ==
    /\ shuffledIndices \in Shuffles(playList)
    /\ reverseShuffledIndices \in Shuffles(playList)
    /\ \A i \in Index(playList) : reverseShuffledIndices[shuffledIndices[i]] = i

\* The two numbers of the current song agree: currSongNumber is its place in the
\* order of the present shuffle mode and realSongNumber its place in the list.
\* next, previous, the highlight and the shuffle button use the first, the
\* watcher the second.  Not after shuffle was switched on before the first list
\* (fixedShuffle is skipped by the early break).
CurrentIsReal ==
    heard # Crashed /\ playList # <<>> /\ "early" \notin slips =>
        realSongNumber = IF shuffleMode = 1 THEN Get(shuffledIndices, currSongNumber)
                                            ELSE currSongNumber

\* No handler reads beyond the end of a list: that takes a second selection made
\* before the first was handled, or one made from a list shown too late.
NoCrash == heard = Crashed => slips \intersect {"selection", "display"} # {}

\* A selected song is the one that is started, or none if its file is unplayable.
\* The list goes through one static field and only the number is in the message.
HeardIsSelected == [][
    HandleSelect /\ slips \intersect {"selection", "display"} = {} =>
        heard' \in {NoSong, Head(toService).song}]_vars

\* With nothing under way the activity shows the list in the order the service
\* plays it, unless two copies of it were under way at once (Globals.tmpplist is
\* set to null by the first).
ShownIsOrder ==
    (/\ heard # Crashed /\ toUi = 0 /\ "overlap" \notin slips
     /\ ~Waiting(LAMBDA m : m.cmd \in {"select", "mode"})) =>
        currPlist = Order /\ path = Order

\* The service keeps the promise of Jukebox.
Asked == [i \in DOMAIN toService |-> [cmd |-> toService[i].cmd,
             song |-> toService[i].song, auto |-> toService[i].auto]]
Excuse == slips \ {"overlap"} # {}
Promise == INSTANCE Jukebox WITH
    order <- Order, pos <- currSongNumber, random <- shuffleMode = 2,
    asked <- Asked, excused <- Excuse
KeepsPromise == Promise!Spec

\* The help text of the loop button: with the straight arrow "the playlist will
\* stop once it has finished".  A shuffled playlist has finished after the last
\* song of its order.
StraightArrow == [][
    (/\ Ended /\ loopMode = 0 /\ Len(playList) > 1 /\ slips = {}
     /\ currSongNumber = Len(playList) - 1) => toService' = toService]_vars
=============================================================================
