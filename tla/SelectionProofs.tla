-------------------------- MODULE SelectionProofs --------------------------
(***************************************************************************)
(* For any playlists and any number of pending broadcasts: the list the    *)
(* activity shows is the one that is played (ShownInOrder), and, unless a  *)
(* selection overtook another or was made from a list shown too late, no   *)
(* handler reads beyond a list (NeverCrashes) and the song selected is the *)
(* one started (SelectedIsStarted).                                        *)
(*                                                                         *)
(* The argument is about the two static fields.  Globals.tmpplist is the   *)
(* order of the service whenever the activity is told to fetch it, or null *)
(* if two copies overlapped; Globals.plist is not null only while a        *)
(* selection is under way.  So a list is shown out of date only while      *)
(* something is under way, and a number chosen from it fits the list it is *)
(* looked up in.                                                           *)
(***************************************************************************)
EXTENDS PlaylistOrderProofs

Selects == {i \in DOMAIN toService : toService[i].cmd = "select"}

\* A list of the activity is up to date, or lost to an overlap.
Shown(list) == list = Order \/ (list = <<>> /\ "overlap" \in slips)

Shows ==
    /\ toUi \in Nat
    /\ toUi > 1 => "overlap" \in slips
    /\ toUi > 0 => Shown(tmpplist)
    /\ toUi = 0 /\ plist = <<>> => Shown(currPlist) /\ Shown(path)
    /\ plist # <<>> => Selects # {}

Excused == slips \intersect {"selection", "display"} # {}

\* The message at place i fits the list it will be looked up in: the one in
\* Globals.plist, or the one being played, which nothing before it changes.
Fits(i) ==
    /\ plist # <<>>
    /\ toService[i].copy => /\ plist \in Lists
                            /\ toService[i].num \in Index(plist)
                            /\ toService[i].song = SongAt(plist, toService[i].num)
    /\ ~toService[i].copy => /\ toService[i].num \in Index(playList)
                             /\ toService[i].song = SongAt(Order, toService[i].num)
                             /\ \A j \in 1..(i - 1) : toService[j].cmd = "stop"

\* A number is a place of the list, if there is one.
InList(n) == playList # <<>> => n \in Index(playList)

Chosen ==
    /\ heard # Crashed
    /\ \A i, j \in Selects : i = j
    /\ \A i \in Selects : Fits(i)
    /\ InList(currSongNumber)
    /\ playList # <<>> => realSongNumber \in Index(playList)

SelectionInv == Inv /\ Shows /\ (~Excused => Chosen)

-----------------------------------------------------------------------------
(* The order and the queue. *)

\* The order has the places of the list, and what stands at a place is the song
\* the shuffled number names.
LEMMA OrderPlaces ==
    ASSUME NEW list \in Seq(Songs), NEW p \in Shuffles(list), NEW mode
    PROVE  /\ Index(InOrder(list, p, mode)) = Index(list)
           /\ \A n \in Index(list) :
                /\ Get(p, n) \in Index(list)
                /\ SongAt(InOrder(list, p, mode), n) =
                       SongAt(list, IF mode = 1 THEN Get(p, n) ELSE n)
<1>1. Len(list) \in Nat /\ DOMAIN list = 1..Len(list)
  OBVIOUS
<1>2. /\ DOMAIN p = Index(list) /\ \A n \in Index(list) : p[n] \in Index(list)
  BY DEF Shuffles, Bijection, Injection
<1>3. \A n \in Index(list) : Get(p, n) = p[n] /\ n \in Int /\ n + 1 \in 1..Len(list)
  BY <1>1, <1>2 DEF Get, Index
<1>4. CASE mode = 1
  <2> DEFINE o == [i \in 1..Len(list) |-> SongAt(list, p[i - 1])]
  <2>1. InOrder(list, p, mode) = o
    BY <1>4 DEF InOrder
  <2>2. \A n \in Index(list) : o[n + 1] = SongAt(list, p[n])
    BY <1>3 DEF Index
  <2>3. Len(o) = Len(list)
    BY <1>1
  <2> HIDE DEF o
  <2> QED BY <1>2, <1>3, <1>4, <2>1, <2>2, <2>3 DEF SongAt, Index
<1>5. CASE mode # 1
  BY <1>2, <1>3, <1>5 DEF InOrder
<1> QED BY <1>4, <1>5

\* An empty list is played in an empty order.
LEMMA EmptyOrder ==
    ASSUME NEW p, NEW mode
    PROVE  InOrder(<<>>, p, mode) = <<>>
BY DEF InOrder

LEMMA SameOrderShown ==
    ASSUME UNCHANGED <<order, shuffleMode>>
    PROVE  Order' = Order
BY DEF order, Order, InOrder, SongAt

\* Messages that are sent go behind the ones that wait.
LEMMA SelectsSent ==
    ASSUME toService \in Seq(Msg), NEW msgs \in Seq(Msg), toService' = toService \o msgs
    PROVE  /\ \A i \in DOMAIN toService : i \in DOMAIN toService' /\ toService'[i] = toService[i]
           /\ Selects \subseteq Selects'
           /\ (\A i \in 1..Len(msgs) : msgs[i].cmd # "select") => Selects' = Selects
<1> DEFINE n == Len(toService)
           m == Len(msgs)
<1>1. /\ n \in Nat /\ m \in Nat
      /\ DOMAIN toService = 1..n /\ DOMAIN toService' = 1..(n + m)
      /\ \A i \in 1..n : toService'[i] = toService[i]
      /\ \A i \in 1..m : toService'[n + i] = msgs[i]
  BY AppendTo
<1> HIDE DEF n
<1>2. \A i \in DOMAIN toService : i \in DOMAIN toService' /\ toService'[i] = toService[i]
  BY <1>1 DEF m
<1>3. ASSUME \A i \in 1..m : msgs[i].cmd # "select" PROVE Selects' \subseteq Selects
  <2>1. ASSUME NEW i \in Selects' PROVE i \in Selects
    <3>1. CASE i \in 1..n
      BY <1>1, <2>1, <3>1 DEF Selects
    <3>2. CASE i \notin 1..n
      <4>1. i \in (n + 1)..(n + m)
        BY <1>1, <2>1, <3>2 DEF Selects
      <4>2. i - n \in 1..m /\ i = n + (i - n)
        BY <1>1, <4>1
      <4> QED BY <1>1, <1>3, <2>1, <4>2 DEF Selects
    <3> QED BY <3>1, <3>2
  <2> QED BY <2>1
<1> QED BY <1>2, <1>3 DEF Selects

\* Serving the first moves the others up by one.
LEMMA SelectsServed ==
    ASSUME toService \in Seq(Msg), toService # <<>>, Served
    PROVE  /\ Head(toService) = toService[1] /\ 1 \in DOMAIN toService
           /\ \A i \in Selects' : i \in Nat /\ i >= 1 /\ i + 1 \in Selects
           /\ \A i \in DOMAIN toService' : toService'[i] = toService[i + 1]
           /\ \A i \in Selects : i \in Nat /\ i >= 1 /\ (i > 1 => i - 1 \in Selects')
<1>1. /\ Head(toService) = toService[1]
      /\ Len(toService) \in Nat \ {0}
      /\ DOMAIN toService = 1..Len(toService)
      /\ DOMAIN toService' = 1..(Len(toService) - 1)
      /\ \A i \in 1..(Len(toService) - 1) : toService'[i] = toService[i + 1]
  BY TailOf DEF Served
<1> QED BY <1>1 DEF Selects

\* One message or two are a sequence of messages.
LEMMA Messages ==
    ASSUME NEW M, NEW m \in M, NEW k \in M
    PROVE  /\ <<m>> \in Seq(M) /\ Len(<<m>>) = 1 /\ <<m>>[1] = m
           /\ <<m, k>> \in Seq(M) /\ Len(<<m, k>>) = 2
           /\ <<m, k>>[1] = m /\ <<m, k>>[2] = k
           /\ <<>> \in Seq(M)
OBVIOUS

\* What a selection sends.
LEMMA SelectionSent ==
    ASSUME NEW files \in Seq(Songs), NEW n \in Index(files), NEW copyPlist \in BOOLEAN
    PROVE  /\ Cmd("stop", FALSE) \in Msg /\ Cmd("stop", FALSE).cmd = "stop"
           /\ SelectCmd(n, copyPlist, SongAt(files, n)) \in Msg
           /\ SelectCmd(n, copyPlist, SongAt(files, n)).cmd = "select"
<1>1. n \in Int /\ SongAt(files, n) \in Songs
  BY DEF Index, SongAt
<1>2. "stop" \in Commands
  BY DEF Commands
<1>3. FALSE \in BOOLEAN
  BY Zenon
<1>4. Cmd("stop", FALSE) \in Msg /\ Cmd("stop", FALSE).cmd = "stop"
  BY <1>2, <1>3, CmdTyped, Zenon
<1>5. /\ SelectCmd(n, copyPlist, SongAt(files, n)) \in Msg
      /\ SelectCmd(n, copyPlist, SongAt(files, n)).cmd = "select"
  BY <1>1, SelectTyped, Zenon
<1> QED BY <1>4, <1>5

\* What the watcher sends.
LEMMA WatcherSent ==
    ASSUME Ended
    PROVE  \E msgs \in Seq(Msg) : /\ toService' = toService \o msgs
                                  /\ \A i \in 1..Len(msgs) : msgs[i].cmd # "select"
<1> DEFINE nx == Cmd("next", TRUE)
           pl == Cmd("play", TRUE)
<1>1. nx \in Msg /\ nx.cmd = "next" /\ pl \in Msg /\ pl.cmd = "play"
  <2>1. "next" \in Commands /\ "play" \in Commands
    BY DEF Commands
  <2>2. TRUE \in BOOLEAN
    BY Zenon
  <2> QED BY <2>1, <2>2, CmdTyped, Zenon
<1>2. \E msgs \in {<<nx>>, <<pl>>, <<>>} : toService' = toService \o msgs
  BY Zenon DEF Ended
<1> HIDE DEF nx, pl
<1>3. PICK msgs \in {<<nx>>, <<pl>>, <<>>} : toService' = toService \o msgs
  BY <1>2
<1>4. msgs \in Seq(Msg) /\ \A i \in 1..Len(msgs) : msgs[i].cmd # "select"
  <2>1. CASE msgs = <<nx>>
    BY <1>1, <2>1, Messages
  <2>2. CASE msgs = <<pl>>
    BY <1>1, <2>2, Messages
  <2>3. CASE msgs = <<>>
    BY <2>3
  <2> QED BY <1>3, <2>1, <2>2, <2>3
<1> QED BY <1>3, <1>4

-----------------------------------------------------------------------------
(* What the activity shows. *)

LEMMA InitShows == Init => Shows
<1> SUFFICES ASSUME Init PROVE Shows
  OBVIOUS
<1>1. Order = <<>>
  BY EmptyOrder DEF Init, Order
<1> QED BY <1>1 DEF Init, Shows, Shown

\* The service sends its order: whatever the activity shows before it has fetched
\* it does not matter.
LEMMA SentShows ==
    ASSUME Shows, SendPlist, Overlap \subseteq slips', plist' # <<>> => Selects' # {}
    PROVE  Shows'
<1>1. toUi \in Nat /\ toUi' = toUi + 1 /\ tmpplist' = Order'
  BY DEF Shows, SendPlist
<1>2. toUi > 0 => "overlap" \in slips'
  BY DEF Overlap
<1>3. Shown(tmpplist)'
  BY <1>1 DEF Shown
<1> QED BY <1>1, <1>2, <1>3 DEF Shows

\* A step that neither sends the order nor changes it.
LEMMA KeptShows ==
    ASSUME Shows, Order' = Order, slips \subseteq slips',
           UNCHANGED <<toUi, tmpplist, currPlist, path>>,
           plist' = <<>> => plist = <<>>, plist' # <<>> => Selects' # {}
    PROVE  Shows'
<1>1. \A list : Shown(list) => Shown(list)'
  BY DEF Shown
<1> QED BY <1>1 DEF Shows

LEMMA NextShows ==
    ASSUME Inv, Shows, [Next]_vars
    PROVE  Shows'
<1>0. toService \in Seq(Msg)
  BY DEF Inv, Typed
<1>1. ASSUME NEW files, NEW n \in Index(files), NEW copyPlist,
             files \in Seq(Songs), copyPlist \in BOOLEAN, Select(files, n, copyPlist)
      PROVE Shows'
  <2> DEFINE msgs == <<Cmd("stop", FALSE), SelectCmd(n, copyPlist, SongAt(files, n))>>
  <2>1. /\ toService' = toService \o msgs
        /\ slips \subseteq slips' /\ plist' = files
        /\ UNCHANGED <<order, shuffleMode, tmpplist, path, toUi>>
    <3>1. slips \subseteq slips'
      BY <1>1, Zenon DEF Select
    <3> QED BY <1>1, <3>1 DEF Select, Send, modes
  <2>2. msgs \in Seq(Msg) /\ Len(msgs) = 2 /\ msgs[2].cmd = "select"
    BY <1>1, SelectionSent, Messages
  <2> HIDE DEF msgs
  <2>3. Len(toService) + 2 \in Selects'
    <3>1. /\ Len(toService) \in Nat
          /\ DOMAIN toService' = 1..(Len(toService) + 2)
          /\ toService'[Len(toService) + 2] = msgs[2]
      BY <1>0, <2>1, <2>2, AppendTo
    <3> QED BY <2>2, <3>1 DEF Selects
  <2>4. plist' # <<>>
    BY <1>1, <2>1 DEF Index
  <2>5. Order' = Order
    BY <2>1, SameOrderShown
  <2>6. \A list : Shown(list) => Shown(list)'
    BY <2>1, <2>5 DEF Shown
  <2> QED BY <2>1, <2>3, <2>4, <2>6 DEF Shows
<1>2. ASSUME NEW msgs \in Seq(Msg), toService' = toService \o msgs, Order' = Order,
             UNCHANGED <<toUi, tmpplist, currPlist, path, plist, slips>>
      PROVE  Shows'
  <2>1. Selects \subseteq Selects'
    BY <1>0, <1>2, SelectsSent
  <2>2. plist' # <<>> => Selects' # {}
    BY <1>2, <2>1 DEF Shows
  <2> QED BY <1>2, <2>2, KeptShows
<1>3. ASSUME NEW c \in {"next", "prev", "play", "stop"}, Press(c) PROVE Shows'
  <2>1. Cmd(c, FALSE) \in Msg
    <3>1. c \in Commands
      BY DEF Commands
    <3>2. FALSE \in BOOLEAN
      BY Zenon
    <3> QED BY <3>1, <3>2, CmdTyped, Zenon
  <2>2. <<Cmd(c, FALSE)>> \in Seq(Msg)
    BY <2>1, Messages
  <2>3. Order' = Order
    BY <1>3, SameOrderShown DEF Press, modes
  <2>4. /\ toService' = toService \o <<Cmd(c, FALSE)>>
        /\ UNCHANGED <<toUi, tmpplist, currPlist, path, plist, slips>>
    BY <1>3 DEF Press, Send, ui
  <2> QED BY <1>2, <2>2, <2>3, <2>4
<1>4. CASE ShuffleButton
  <2> DEFINE m == [Cmd("mode", FALSE) EXCEPT !.num = buttonMode']
  <2>1. <<m>> \in Seq(Msg)
    <3>1. buttonMode' \in Int
      BY <1>4 DEF ShuffleButton, Inv, Typed
    <3>2. m \in Msg
      BY <3>1, ModeTyped
    <3> QED BY <3>2
  <2>2. Order' = Order
    BY <1>4, SameOrderShown DEF ShuffleButton, modes
  <2>3. /\ toService' = toService \o <<m>>
        /\ UNCHANGED <<toUi, tmpplist, currPlist, path, plist, slips>>
    BY <1>4 DEF ShuffleButton, Send
  <2> HIDE DEF m
  <2> QED BY <1>2, <2>1, <2>2, <2>3
<1>5. CASE LoopMode
  <2>1. Order' = Order
    BY <1>5, SameOrderShown DEF LoopMode
  <2>2. UNCHANGED <<toUi, tmpplist, currPlist, path, plist, slips, toService>>
    BY <1>5 DEF LoopMode, ui
  <2> QED BY <2>1, <2>2, KeptShows DEF Shows, Selects
<1>6. CASE OpenCurrent
  <2>1. Order' = Order
    BY <1>6, SameOrderShown DEF OpenCurrent, modes
  <2>2. /\ UNCHANGED <<toUi, tmpplist, currPlist, plist, slips, toService>>
        /\ path' = currPlist
    BY <1>6 DEF OpenCurrent
  <2>3. \A list : Shown(list) => Shown(list)'
    BY <2>1, <2>2 DEF Shown
  <2> QED BY <2>2, <2>3 DEF Shows, Selects
<1>7. CASE CopyPlist
  <2>1. Order' = Order
    BY <1>7, SameOrderShown DEF CopyPlist, modes
  <2>2. /\ UNCHANGED <<plist, slips, toService>>
        /\ toUi > 0 /\ toUi' = toUi - 1
        /\ currPlist' = tmpplist /\ path' = tmpplist /\ tmpplist' = <<>>
    BY <1>7 DEF CopyPlist
  <2>3. \A list : Shown(list) => Shown(list)'
    BY <2>1, <2>2 DEF Shown
  <2>4. toUi' > 0 => "overlap" \in slips'
    BY <2>2 DEF Shows
  <2>5. toUi' > 0 => Shown(tmpplist)'
    BY <2>2, <2>4 DEF Shown
  <2> QED BY <2>2, <2>3, <2>4, <2>5 DEF Shows, Selects
<1>8. ASSUME toService # <<>>, Served, Head(toService).cmd # "select", UNCHANGED plist
      PROVE  plist' # <<>> => Selects' # {}
  <2>1. ASSUME plist # <<>> PROVE Selects' # {}
    <3>1. PICK i : i \in Selects
      BY <2>1 DEF Shows
    <3>2. i # 1
      BY <1>0, <1>8, <3>1, SelectsServed DEF Selects
    <3>3. i - 1 \in Selects'
      BY <1>0, <1>8, <3>1, <3>2, SelectsServed
    <3> QED BY <3>3
  <2> QED BY <1>8, <2>1
<1>9. CASE HandleSelect
  <2>1. slips \subseteq slips' /\ (plist # <<>> => Overlap \subseteq slips')
    BY <1>9, Zenon DEF HandleSelect, Handled
  <2>2. CASE plist = <<>>
    <3>1. UNCHANGED <<order, shuffleMode, plist, tmpplist, toUi, currPlist, path>>
      BY <1>9, <2>2 DEF HandleSelect, modes, ui
    <3> QED BY <2>1, <2>2, <3>1, SameOrderShown, KeptShows
  <2>3. CASE plist # <<>>
    BY <1>9, <2>1, <2>3, SentShows DEF HandleSelect
  <2> QED BY <2>2, <2>3
<1>10. CASE HandlePlay \/ HandleStop
  <2>1. slips \subseteq slips'
    BY <1>10, Zenon DEF HandlePlay, HandleStop, Handled
  <2>2. /\ toService # <<>> /\ Served /\ Head(toService).cmd # "select"
        /\ UNCHANGED <<order, shuffleMode, plist, tmpplist, toUi, currPlist, path>>
    BY <1>10 DEF HandlePlay, HandleStop, Handled, Serving, modes, ui
  <2> QED BY <1>8, <2>1, <2>2, SameOrderShown, KeptShows
<1>11. CASE ShufMode
  <2>1. /\ toService # <<>> /\ Served /\ Head(toService).cmd # "select"
        /\ UNCHANGED <<playList, plist, currPlist, path>>
    BY <1>11 DEF ShufMode, Serving, ui, order
  <2>2. CASE playList = <<>>
    <3>1. Order = <<>> /\ Order' = <<>>
      BY <2>1, <2>2, EmptyOrder DEF Order, InOrder
    <3>2. slips \subseteq slips'
      BY <1>11, <2>2, Zenon DEF ShufMode, Slip
    <3>3. UNCHANGED <<tmpplist, toUi>>
      BY <1>11, <2>2 DEF ShufMode
    <3> QED BY <1>8, <2>1, <3>1, <3>2, <3>3, KeptShows
  <2>3. CASE playList # <<>>
    <3>1. Overlap \subseteq slips' /\ SendPlist
      BY <1>11, <2>3, Zenon DEF ShufMode
    <3> QED BY <1>8, <2>1, <3>1, SentShows
  <2> QED BY <2>2, <2>3
<1>12. CASE Ended
  <2>3. \E msgs \in Seq(Msg) : toService' = toService \o msgs
    BY <1>12, WatcherSent
  <2>4. Order' = Order
    BY <1>12, SameOrderShown DEF Ended, modes
  <2>5. UNCHANGED <<toUi, tmpplist, currPlist, path, plist, slips>>
    BY <1>12 DEF Ended, ui
  <2> QED BY <1>2, <2>3, <2>4, <2>5
<1>13. CASE UNCHANGED vars
  <2>1. UNCHANGED <<order, shuffleMode, toUi, tmpplist, currPlist, path, plist, slips, toService>>
    BY <1>13 DEF vars, ui, modes
  <2> QED BY <2>1, SameOrderShown, KeptShows DEF Shows, Selects
<1>14. ASSUME NEW files \in Lists, NEW n \in Index(files), Select(files, n, TRUE) PROVE Shows'
  <2>1. TRUE \in BOOLEAN
    BY Zenon
  <2> QED BY <1>1, <1>14, <2>1, ListsTyped
<1>15. ASSUME NEW n \in Index(path), Select(path, n, FALSE) PROVE Shows'
  <2>1. FALSE \in BOOLEAN
    BY Zenon
  <2>2. path \in Seq(Songs)
    BY DEF Inv, Typed
  <2> QED BY <1>1, <1>15, <2>1, <2>2
<1> QED BY <1>3, <1>4, <1>5, <1>6, <1>7, <1>9, <1>10, <1>11, <1>12, <1>13, <1>14, <1>15 DEF Next

\* For any playlists: with nothing under way the activity shows the list in the
\* order it is played, unless two copies of it overlapped.
THEOREM ShownInOrder == Spec => []ShownIsOrder
<1>1. Inv /\ Shows => ShownIsOrder
  <2> SUFFICES ASSUME Shows, toUi = 0, "overlap" \notin slips,
                      ~Waiting(LAMBDA m : m.cmd \in {"select", "mode"})
               PROVE  currPlist = Order /\ path = Order
    BY DEF ShownIsOrder
  <2>1. Selects = {}
    BY DEF Waiting, Selects
  <2>2. plist = <<>>
    BY <2>1 DEF Shows
  <2> QED BY <2>2 DEF Shows, Shown
<1>2. Init => Inv /\ Shows
  BY InitInv, InitShows
<1>3. Inv /\ Shows /\ [Next]_vars => (Inv /\ Shows)'
  BY NextInv, NextShows
<1> QED BY <1>1, <1>2, <1>3, PTL DEF Spec

-----------------------------------------------------------------------------
(* Which song is chosen. *)

LEMMA InitChosen == Init => Chosen
<1> SUFFICES ASSUME Init PROVE Chosen
  OBVIOUS
<1>1. Selects = {} /\ heard # Crashed /\ InList(currSongNumber) /\ playList = <<>>
  BY OutcomeAssumption DEF Init, Selects, InList
<1> QED BY <1>1 DEF Chosen

\* play() reads within the list if the number is one of it, and then the song in
\* that place of the order is started.
LEMMA PlayReads ==
    ASSUME play, OrderInv', playList' \in Seq(Songs), UNCHANGED shuffleMode,
           playList' # <<>>, currSongNumber' \in Index(playList')
    PROVE  /\ realSongNumber' \in Index(playList')
           /\ heard' \in {NoSong, SongAt(playList', realSongNumber')}
           /\ SongAt(playList', realSongNumber') = SongAt(Order', currSongNumber')
           /\ heard' # Crashed
<1>1. shuffledIndices' \in Shuffles(playList')
  BY DEF OrderInv, Shuffles, Index
<1>2. Order' = InOrder(playList', shuffledIndices', shuffleMode)
  BY DEF Order, InOrder, SongAt
<1>3. /\ Get(shuffledIndices', currSongNumber') \in Index(playList')
      /\ SongAt(Order', currSongNumber') =
             SongAt(playList', IF shuffleMode = 1 THEN Get(shuffledIndices', currSongNumber')
                                                  ELSE currSongNumber')
  BY <1>1, <1>2, OrderPlaces
<1>4. currSongNumber' >= 0
  BY DEF Index
<1>5. /\ realSongNumber' = IF shuffleMode = 1 THEN Get(shuffledIndices', currSongNumber')
                                              ELSE currSongNumber'
      /\ heard' \in IF realSongNumber' \in Index(playList')
                    THEN {NoSong, SongAt(playList', realSongNumber')} ELSE {Crashed}
  BY <1>4 DEF play
<1>6. realSongNumber' \in Index(playList')
  BY <1>3, <1>5
<1>7. SongAt(playList', realSongNumber') \in Songs
  BY <1>6 DEF SongAt, Index
<1>8. heard' # Crashed
  BY <1>5, <1>6, <1>7, OutcomeAssumption
<1> QED BY <1>3, <1>5, <1>6, <1>8

\* A step that appends messages which select nothing.
LEMMA SentChosen ==
    ASSUME Inv, Chosen, NEW msgs \in Seq(Msg), toService' = toService \o msgs,
           \A i \in 1..Len(msgs) : msgs[i].cmd # "select",
           UNCHANGED <<plist, order, place, shuffleMode>>, heard' # Crashed
    PROVE  Chosen'
<1>1. toService \in Seq(Msg)
  BY DEF Inv, Typed
<1>2. /\ \A i \in DOMAIN toService : toService'[i] = toService[i]
      /\ Selects' = Selects
  BY <1>1, SelectsSent
<1>3. Order' = Order
  BY SameOrderShown
<1>4. ASSUME NEW i \in Selects PROVE Fits(i)'
  <2>1. Fits(i) /\ i \in DOMAIN toService
    BY <1>4 DEF Chosen, Selects
  <2>2. 1..(i - 1) \subseteq DOMAIN toService
    BY <1>1, <2>1
  <2> QED BY <1>2, <1>3, <2>1, <2>2 DEF Fits, Index, order
<1> QED BY <1>2, <1>4 DEF Chosen, InList, Index, order, place

\* A step that serves a message which selects nothing.
LEMMA ServedChosen ==
    ASSUME Inv, Chosen, toService # <<>>, Served, Head(toService).cmd # "select",
           Head(toService).cmd = "stop" => Order' = Order,
           UNCHANGED <<plist, playList>>, heard' # Crashed, InList(currSongNumber'),
           playList # <<>> => realSongNumber' \in Index(playList)
    PROVE  Chosen'
<1>1. toService \in Seq(Msg)
  BY DEF Inv, Typed
<1>2. /\ Head(toService) = toService[1] /\ 1 \in DOMAIN toService
      /\ \A i \in Selects' : i \in Nat /\ i >= 1 /\ i + 1 \in Selects
      /\ \A i \in DOMAIN toService' : toService'[i] = toService[i + 1]
  BY <1>1, SelectsServed
<1>3. ASSUME NEW i \in Selects' PROVE Fits(i)'
  <2>1. Fits(i + 1) /\ i \in DOMAIN toService' /\ i \in Nat /\ i >= 1
    BY <1>2, <1>3 DEF Chosen, Selects
  <2>2. toService'[i] = toService[i + 1]
    BY <1>2, <2>1
  <2>3. plist' # <<>> /\ (toService'[i].copy => /\ plist' \in Lists
                                               /\ toService'[i].num \in Index(plist')
                                               /\ toService'[i].song = SongAt(plist', toService'[i].num))
    BY <2>1, <2>2 DEF Fits, Index
  <2>4. ASSUME ~toService'[i].copy
        PROVE  /\ toService'[i].num \in Index(playList')
               /\ toService'[i].song = SongAt(Order', toService'[i].num)
               /\ \A j \in 1..(i - 1) : toService'[j].cmd = "stop"
    <3>1. \A j \in 1..i : toService[j].cmd = "stop"
      BY <2>1, <2>2, <2>4 DEF Fits
    <3>2. Order' = Order
      BY <1>2, <2>1, <3>1
    <3>3. \A j \in 1..(i - 1) : j \in DOMAIN toService' /\ j + 1 \in 1..i
      <4>1. toService' \in Seq(Msg)
        BY <1>1, TailOf DEF Served
      <4> QED BY <2>1, <4>1
    <3>4. \A j \in 1..(i - 1) : toService'[j].cmd = "stop"
      BY <1>2, <3>1, <3>3
    <3> QED BY <2>1, <2>2, <2>4, <3>2, <3>4 DEF Fits, Index
  <2> QED BY <2>3, <2>4 DEF Fits
<1>4. \A i, j \in Selects' : i = j
  <2> TAKE i, j \in Selects'
  <2>1. i + 1 = j + 1 /\ i \in Nat /\ j \in Nat
    BY <1>2 DEF Chosen
  <2> QED BY <2>1
<1> QED BY <1>3, <1>4 DEF Chosen, InList, Index

\* A selection is made: of a new list, while no other is under way, or of the
\* list shown, with nothing under way at all.
LEMMA SelectChosen ==
    ASSUME Inv, Shows, Chosen, NEW files \in Seq(Songs), NEW n \in Index(files),
           NEW copyPlist \in BOOLEAN, Select(files, n, copyPlist), ~Excused',
           copyPlist => files \in Lists, ~copyPlist => files = path
    PROVE  Chosen'
<1> DEFINE stop == Cmd("stop", FALSE)
           sel == SelectCmd(n, copyPlist, SongAt(files, n))
<1>0. PICK last \in Nat : last = Len(toService) + 2
  BY DEF Inv, Typed
<1>1. /\ stop \in Msg /\ stop.cmd = "stop" /\ sel \in Msg /\ sel.cmd = "select"
      /\ sel.num = n /\ sel.copy = copyPlist /\ sel.song = SongAt(files, n)
  <2>1. sel.num = n /\ sel.copy = copyPlist /\ sel.song = SongAt(files, n)
    BY Zenon DEF SelectCmd
  <2> QED BY <2>1, SelectionSent
<1>2. /\ toService' = toService \o <<stop, sel>> /\ plist' = files
      /\ UNCHANGED <<order, place, shuffleMode, heard>>
  BY DEF Select, Send, modes
<1>3. /\ Waiting(LAMBDA m : m.cmd = "select") => "selection" \in slips'
      /\ ~copyPlist /\ (toService # <<>> \/ toUi > 0) => "display" \in slips'
  BY Zenon DEF Select
<1> HIDE DEF stop, sel
<1>4. /\ Selects = {}
      /\ ~copyPlist => toService = <<>> /\ toUi = 0
  <2>1. ~Waiting(LAMBDA m : m.cmd = "select")
    BY <1>3 DEF Excused
  <2>2. Selects = {}
    BY <2>1 DEF Waiting, Selects
  <2>3. toUi = 0 \/ toUi > 0
    BY DEF Shows
  <2> QED BY <1>3, <2>2, <2>3 DEF Excused
<1>5. /\ Len(toService) \in Nat /\ last \in Nat
      /\ DOMAIN toService' = 1..last
      /\ \A i \in 1..(last - 2) : toService'[i] = toService[i]
      /\ toService'[last - 1] = stop /\ toService'[last] = sel
  <2>1. toService \in Seq(Msg)
    BY DEF Inv, Typed
  <2>2. <<stop, sel>> \in Seq(Msg) /\ Len(<<stop, sel>>) = 2
        /\ <<stop, sel>>[1] = stop /\ <<stop, sel>>[2] = sel
    BY <1>1, Messages
  <2>3. /\ Len(toService) \in Nat
        /\ DOMAIN toService' = 1..(Len(toService) + 2)
        /\ \A i \in 1..Len(toService) : toService'[i] = toService[i]
        /\ toService'[Len(toService) + 1] = stop /\ toService'[Len(toService) + 2] = sel
    BY <1>2, <2>1, <2>2, AppendTo
  <2> QED BY <1>0, <2>3
<1>6. DOMAIN toService = 1..(last - 2)
  BY <1>0 DEF Inv, Typed
<1>7. Selects' \subseteq {last}
  <2>1. ASSUME NEW i \in 1..last, toService'[i].cmd = "select" PROVE i = last
    <3>1. i \notin 1..(last - 2)
      BY <1>4, <1>5, <1>6, <2>1 DEF Selects
    <3>2. i # last - 1
      BY <1>1, <1>5, <2>1
    <3> QED BY <1>5, <2>1, <3>1, <3>2
  <2> QED BY <1>5, <2>1 DEF Selects
<1>8. Fits(last)'
  <2>1. plist' # <<>>
    BY <1>2 DEF Index
  <2>2. copyPlist => /\ plist' \in Lists
                     /\ n \in Index(plist') /\ SongAt(files, n) = SongAt(plist', n)
    BY <1>2
  <2>3. ASSUME ~copyPlist
        PROVE  /\ n \in Index(playList') /\ SongAt(files, n) = SongAt(Order', n)
               /\ \A j \in 1..(last - 1) : toService'[j].cmd = "stop"
    <3>1. toService = <<>> /\ toUi = 0 /\ plist = <<>>
      BY <1>4, <2>3 DEF Shows
    <3>2. files # <<>> /\ files = path
      BY <2>3 DEF Index
    <3>3. files = Order
      BY <3>1, <3>2 DEF Shows, Shown
    <3>4. Index(Order) = Index(playList)
      BY OrderPlaces DEF Inv, OrderInv, Typed, Order
    <3>5. Order' = Order /\ playList' = playList
      BY <1>2, SameOrderShown DEF order
    <3>6. last = 2
      BY <1>0, <3>1
    <3> QED BY <1>1, <1>5, <3>3, <3>4, <3>5, <3>6 DEF Index
  <2> QED BY <1>1, <1>5, <2>1, <2>2, <2>3 DEF Fits
<1> QED BY <1>2, <1>7, <1>8 DEF Chosen, InList, Index, order, place

\* The selection is carried out: its number is found in the list it was made from.
LEMMA HandledChosen ==
    ASSUME Inv, Inv', Chosen, HandleSelect
    PROVE  /\ Chosen'
           /\ heard' \in {NoSong, Head(toService).song}
           /\ playList' # <<>> /\ currSongNumber' \in Index(playList')
           /\ SongAt(Order', currSongNumber') = Head(toService).song
           /\ UNCHANGED order \/ playList' \in Lists
<1> DEFINE msg == Head(toService)
<1>1. toService \in Seq(Msg) /\ toService # <<>> /\ msg.cmd = "select" /\ Served
      /\ UNCHANGED shuffleMode
  BY DEF Inv, Typed, HandleSelect, Serving, Handled, modes
<1>2. /\ msg = toService[1] /\ 1 \in Selects
      /\ \A i \in Selects' : i \in Nat /\ i >= 1 /\ i + 1 \in Selects
  BY <1>1, SelectsServed DEF Selects
<1>3. Selects' = {}
  <2>1. ASSUME NEW i \in Selects' PROVE FALSE
    <3>1. i + 1 = 1 /\ i \in Nat /\ i >= 1
      BY <1>2, <2>1 DEF Chosen
    <3> QED BY <3>1
  <2> QED BY <2>1
<1>4. Fits(1)
  BY <1>2 DEF Chosen
<1>5. (IF msg.copy THEN LoadPlist(msg.num) ELSE PickSong(msg.num)) /\ play
  BY <1>4 DEF HandleSelect, Fits
<1>6. OrderInv' /\ playList' \in Seq(Songs)
  BY DEF Inv, Typed
<1>7. /\ playList' # <<>> /\ currSongNumber' \in Index(playList')
      /\ SongAt(Order', currSongNumber') = msg.song
  <2>1. CASE msg.copy
    <3>1. /\ msg.num \in Index(playList') /\ msg.song = SongAt(playList', msg.num)
          /\ currSongNumber' = IF shuffleMode = 1 THEN Get(reverseShuffledIndices', msg.num)
                                                  ELSE msg.num
      BY <1>2, <1>4, <1>5, <2>1 DEF Fits, LoadPlist
    <3>2. playList' # <<>>
      BY <3>1 DEF Index
    <3>3. /\ shuffledIndices' \in Shuffles(playList')
          /\ reverseShuffledIndices' \in Shuffles(playList')
          /\ \A i \in Index(playList') : reverseShuffledIndices'[shuffledIndices'[i]] = i
      BY <1>6 DEF OrderInv, Shuffles, Index
    <3>4. /\ reverseShuffledIndices'[msg.num] \in Index(playList')
          /\ shuffledIndices'[reverseShuffledIndices'[msg.num]] = msg.num
          /\ DOMAIN reverseShuffledIndices' = Index(playList')
          /\ DOMAIN shuffledIndices' = Index(playList')
      BY <3>1, <3>3, ReverseFirst
    <3>5. /\ currSongNumber' \in Index(playList')
          /\ msg.num = IF shuffleMode = 1 THEN Get(shuffledIndices', currSongNumber')
                                          ELSE currSongNumber'
      BY <3>1, <3>4 DEF Get
    <3>6. Order' = InOrder(playList', shuffledIndices', shuffleMode)
      BY <1>1 DEF Order, InOrder, SongAt
    <3>7. SongAt(Order', currSongNumber') =
             SongAt(playList', IF shuffleMode = 1 THEN Get(shuffledIndices', currSongNumber')
                                                  ELSE currSongNumber')
      BY <1>6, <3>3, <3>5, <3>6, OrderPlaces
    <3> QED BY <3>1, <3>2, <3>5, <3>7
  <2>2. CASE ~msg.copy
    <3>1. /\ msg.num \in Index(playList) /\ msg.song = SongAt(Order, msg.num)
          /\ currSongNumber' = msg.num /\ UNCHANGED order
      BY <1>2, <1>4, <1>5, <2>2 DEF Fits, PickSong
    <3>2. Order' = Order /\ playList' = playList
      BY <1>1, <3>1, SameOrderShown DEF order
    <3>3. playList # <<>>
      BY <3>1 DEF Index
    <3> QED BY <3>1, <3>2, <3>3 DEF Index
  <2> QED BY <2>1, <2>2
<1>8. /\ realSongNumber' \in Index(playList')
      /\ heard' \in {NoSong, SongAt(playList', realSongNumber')}
      /\ SongAt(playList', realSongNumber') = SongAt(Order', currSongNumber')
      /\ heard' # Crashed
  BY <1>1, <1>5, <1>6, <1>7, PlayReads
<1>9. Chosen'
  BY <1>3, <1>7, <1>8 DEF Chosen, InList, Index
<1>10. UNCHANGED order \/ playList' \in Lists
  BY <1>4, <1>5 DEF Fits, LoadPlist, PickSong
<1> QED BY <1>7, <1>8, <1>9, <1>10

\* Next, previous and play stay within the list.
LEMMA PlayChosen ==
    ASSUME Inv, Inv', Chosen, HandlePlay
    PROVE  Chosen'
<1>1. /\ toService # <<>> /\ Served /\ Head(toService).cmd \notin {"select", "stop"}
      /\ UNCHANGED <<plist, playList, shuffleMode>> /\ play
      /\ next \/ previous \/ UNCHANGED currSongNumber
  BY DEF HandlePlay, Serving, Handled, order, modes
<1>2. playList \in Seq(Songs) /\ playList' \in Seq(Songs) /\ OrderInv' /\ currSongNumber \in Int
  BY DEF Inv, Typed
<1>3. CASE playList # <<>> /\ currSongNumber >= 0
  <2>1. currSongNumber \in Index(playList) /\ Len(playList) \in Nat \ {0}
    BY <1>2, <1>3 DEF Chosen, InList
  <2>2. currSongNumber' \in Index(playList)
    <3>1. CASE next
      BY <1>3, <2>1, <3>1 DEF next, Index
    <3>2. CASE previous
      BY <1>3, <2>1, <3>2 DEF previous, Index
    <3> QED BY <1>1, <2>1, <3>1, <3>2
  <2>3. currSongNumber' \in Index(playList') /\ playList' # <<>>
    BY <1>1, <1>3, <2>2
  <2>4. realSongNumber' \in Index(playList') /\ heard' # Crashed
    BY <1>1, <1>2, <2>3, PlayReads
  <2> QED BY <1>1, <2>2, <2>4, ServedChosen DEF InList
<1>4. CASE ~(playList # <<>> /\ currSongNumber >= 0)
  <2>1. currSongNumber' = currSongNumber
    BY <1>1, <1>2, <1>4 DEF next, previous
  <2>2. UNCHANGED <<realSongNumber, heard>>
    BY <1>1, <1>4, <2>1 DEF play
  <2> QED BY <1>1, <2>1, <2>2, ServedChosen DEF Chosen, InList
<1> QED BY <1>3, <1>4

\* Another shuffle mode keeps the number within the list.
LEMMA ModeChosen ==
    ASSUME Inv, Inv', Chosen, ShufMode
    PROVE  Chosen'
<1>1. /\ toService # <<>> /\ Served /\ Head(toService).cmd \notin {"select", "stop"}
      /\ UNCHANGED <<plist, playList, realSongNumber, heard>>
  BY DEF ShufMode, Serving, order
<1>2. InList(currSongNumber')
  <2>1. CASE playList = <<>>
    BY <2>1 DEF ShufMode, Chosen, InList
  <2>2. CASE playList # <<>>
    <3>1. ShuffleOn \/ ShuffleOff
      BY <2>2 DEF ShufMode
    <3>2. CASE ShuffleOn
      <4>1. reverseShuffledIndices' \in Shuffles(playList)
        BY <1>1 DEF Inv, OrderInv, Shuffles, Index
      <4>2. \A i : Get(reverseShuffledIndices', i) \in Index(playList)
        <5>1. 0 \in Index(playList)
          BY <2>2 DEF Index, Inv, Typed
        <5>2. reverseShuffledIndices' \in [Index(playList) -> Index(playList)]
          BY <4>1 DEF Shuffles, Bijection, Injection
        <5> QED BY <5>1, <5>2 DEF Get
      <4> QED BY <3>2, <4>2 DEF ShuffleOn, InList
    <3>3. CASE ShuffleOff
      BY <2>2, <3>3 DEF ShuffleOff, Chosen, InList
    <3> QED BY <3>1, <3>2, <3>3
  <2> QED BY <2>1, <2>2
<1>3. heard' # Crashed /\ (playList # <<>> => realSongNumber' \in Index(playList))
  BY <1>1 DEF Chosen
<1> QED BY <1>1, <1>2, <1>3, ServedChosen

LEMMA NextChosen ==
    ASSUME Inv, Inv', Shows, Chosen, [Next]_vars, ~Excused'
    PROVE  Chosen'
<1>1. ASSUME NEW files \in Lists, NEW n \in Index(files), Select(files, n, TRUE) PROVE Chosen'
  <2>1. TRUE \in BOOLEAN
    BY Zenon
  <2> QED BY <1>1, <2>1, ListsTyped, SelectChosen
<1>2. ASSUME NEW n \in Index(path), Select(path, n, FALSE) PROVE Chosen'
  <2>1. FALSE \in BOOLEAN
    BY Zenon
  <2>2. path \in Seq(Songs)
    BY DEF Inv, Typed
  <2> QED BY <1>2, <2>1, <2>2, SelectChosen
<1>3. ASSUME NEW c \in {"next", "prev", "play", "stop"}, Press(c) PROVE Chosen'
  <2>1. Cmd(c, FALSE) \in Msg /\ Cmd(c, FALSE).cmd = c
    <3>1. c \in Commands
      BY DEF Commands
    <3>2. FALSE \in BOOLEAN
      BY Zenon
    <3> QED BY <3>1, <3>2, CmdTyped, Zenon
  <2> DEFINE m == Cmd(c, FALSE)
  <2>2. /\ toService' = toService \o <<m>>
        /\ UNCHANGED <<plist, order, place, shuffleMode, heard>>
    BY <1>3 DEF Press, Send, modes
  <2>3. m \in Msg /\ m.cmd # "select"
    BY <2>1
  <2> HIDE DEF m
  <2>4. <<m>> \in Seq(Msg) /\ \A i \in 1..Len(<<m>>) : <<m>>[i].cmd # "select"
    BY <2>3, Messages
  <2> QED BY <2>2, <2>4, SentChosen DEF Chosen
<1>4. CASE ShuffleButton
  <2> DEFINE m == [Cmd("mode", FALSE) EXCEPT !.num = buttonMode']
  <2>1. buttonMode' \in Int
    BY <1>4 DEF ShuffleButton, Inv, Typed
  <2>2. m \in Msg /\ m.cmd # "select"
    BY <2>1, ModeTyped
  <2>3. /\ toService' = toService \o <<m>>
        /\ UNCHANGED <<plist, order, place, shuffleMode, heard>>
    BY <1>4 DEF ShuffleButton, Send, modes
  <2> HIDE DEF m
  <2>4. <<m>> \in Seq(Msg) /\ \A i \in 1..Len(<<m>>) : <<m>>[i].cmd # "select"
    BY <2>2, Messages
  <2> QED BY <2>3, <2>4, SentChosen DEF Chosen
<1>5. CASE LoopMode \/ OpenCurrent \/ CopyPlist \/ UNCHANGED vars
  <2>1. UNCHANGED <<plist, order, place, shuffleMode, heard, toService>>
    BY <1>5 DEF LoopMode, OpenCurrent, CopyPlist, vars, modes
  <2>2. Order' = Order
    BY <2>1, SameOrderShown
  <2> QED BY <2>1, <2>2 DEF Chosen, Selects, Fits, InList, Index, order, place
<1>6. CASE HandleSelect
  BY <1>6, HandledChosen
<1>7. CASE HandlePlay
  BY <1>7, PlayChosen
<1>8. CASE HandleStop
  <2>1. /\ toService # <<>> /\ Served /\ Head(toService).cmd # "select"
        /\ UNCHANGED <<plist, order, place, shuffleMode>> /\ heard' = NoSong
    BY <1>8 DEF HandleStop, Serving, Handled, modes
  <2>2. heard' # Crashed
    BY <2>1, OutcomeAssumption
  <2>3. Order' = Order
    BY <2>1, SameOrderShown
  <2>4. UNCHANGED <<plist, playList, currSongNumber, realSongNumber>>
    BY <2>1 DEF order, place
  <2> QED BY <2>1, <2>2, <2>3, <2>4, ServedChosen DEF Chosen, InList
<1>9. CASE ShufMode
  BY <1>9, ModeChosen
<1>10. CASE Ended
  <2>1. PICK msgs \in Seq(Msg) : /\ toService' = toService \o msgs
                                 /\ \A i \in 1..Len(msgs) : msgs[i].cmd # "select"
    BY <1>10, WatcherSent
  <2>2. UNCHANGED <<plist, order, place, shuffleMode>> /\ heard' # Crashed
    BY <1>10, OutcomeAssumption DEF Ended, modes
  <2> QED BY <2>1, <2>2, SentChosen
<1> QED BY <1>1, <1>2, <1>3, <1>4, <1>5, <1>6, <1>7, <1>8, <1>9, <1>10 DEF Next

\* A mishap is remembered.
LEMMA SlipsStay == [Next]_vars => slips \subseteq slips'
<1> SUFFICES ASSUME [Next]_vars PROVE slips \subseteq slips'
  OBVIOUS
<1>1. ASSUME NEW files, NEW n, NEW cp, Select(files, n, cp) PROVE slips \subseteq slips'
  BY <1>1, Zenon DEF Select
<1>2. CASE \/ HandleSelect \/ HandlePlay \/ HandleStop
  BY <1>2, Zenon DEF HandleSelect, HandlePlay, HandleStop, Handled
<1>3. CASE ShufMode
  <2>1. CASE playList = <<>>
    BY <1>3, <2>1, Zenon DEF ShufMode, Slip
  <2>2. CASE playList # <<>>
    BY <1>3, <2>2, Zenon DEF ShufMode
  <2> QED BY <2>1, <2>2
<1>4. CASE \/ ShuffleButton \/ LoopMode \/ OpenCurrent \/ CopyPlist \/ Ended \/ UNCHANGED vars
           \/ \E c \in {"next", "prev", "play", "stop"} : Press(c)
  BY <1>4 DEF ShuffleButton, LoopMode, OpenCurrent, CopyPlist, Ended, vars, Press
<1> QED BY <1>1, <1>2, <1>3, <1>4 DEF Next

LEMMA SelectionInvInductive ==
    /\ Init => SelectionInv
    /\ SelectionInv /\ [Next]_vars => SelectionInv'
<1>1. Init => SelectionInv
  BY InitInv, InitShows, InitChosen DEF SelectionInv
<1>2. ASSUME SelectionInv, [Next]_vars PROVE SelectionInv'
  <2>1. Inv' /\ Shows'
    BY <1>2, NextInv, NextShows DEF SelectionInv
  <2>2. ~Excused' => ~Excused
    BY <1>2, SlipsStay DEF Excused
  <2>3. ~Excused' => Chosen'
    BY <1>2, <2>1, <2>2, NextChosen DEF SelectionInv
  <2> QED BY <2>1, <2>3 DEF SelectionInv
<1> QED BY <1>1, <1>2

\* For any playlists and any number of pending broadcasts: no handler reads beyond
\* the end of a list, unless a selection overtook another or was made from a list
\* shown too late.
THEOREM NeverCrashes == Spec => []NoCrash
<1>1. SelectionInv => NoCrash
  BY DEF SelectionInv, Chosen, Excused, NoCrash
<1> QED BY <1>1, SelectionInvInductive, PTL DEF Spec

\* For any playlists and any number of pending broadcasts: the song selected is
\* the one that is started, under the same condition.
THEOREM SelectedIsStarted == Spec => HeardIsSelected
<1>1. SelectionInv /\ SelectionInv' /\ [Next]_vars =>
          [HandleSelect /\ slips \intersect {"selection", "display"} = {} =>
              heard' \in {NoSong, Head(toService).song}]_vars
  BY HandledChosen DEF SelectionInv, Excused
<1> QED BY <1>1, SelectionInvInductive, PTL DEF Spec, HeardIsSelected

-----------------------------------------------------------------------------
(* Types. *)

Rest ==
    /\ loopMode \in 0..2 /\ fixedShuffle \in BOOLEAN
    /\ heard \in Songs \union {NoSong, Crashed}
    /\ slips \subseteq Mishaps

\* play() starts a song of the list, or none.
LEMMA PlayHeard ==
    ASSUME play, playList' \in Seq(Songs), Rest
    PROVE  heard' \in Songs \union {NoSong, Crashed}
<1>1. \A n \in Index(playList') : SongAt(playList', n) \in Songs
  BY DEF SongAt, Index
<1> QED BY <1>1 DEF play, Rest

\* Serving a message adds mishaps that have a name.
LEMMA HandledSlips ==
    ASSUME Rest, NEW more \in SUBSET Mishaps, Handled(more)
    PROVE  slips' \subseteq Mishaps
<1>1. "late" \in Mishaps
  BY DEF Mishaps
<1> QED BY <1>1, Zenon DEF Handled, Rest

LEMMA NextRest ==
    ASSUME Inv', Rest, [Next]_vars
    PROVE  Rest'
<1>0. playList' \in Seq(Songs)
  BY DEF Inv, Typed
<1>1. ASSUME NEW files, NEW n, NEW cp, Select(files, n, cp) PROVE Rest'
  <2>1. "selection" \in Mishaps /\ "display" \in Mishaps
    BY DEF Mishaps
  <2>2. slips' \subseteq Mishaps
    BY <1>1, <2>1, Zenon DEF Select, Rest
  <2>3. UNCHANGED <<loopMode, fixedShuffle, heard>>
    BY <1>1 DEF Select, modes
  <2> QED BY <2>2, <2>3 DEF Rest
<1>2. CASE LoopMode
  BY <1>2 DEF LoopMode, Rest
<1>3. CASE \/ \E c \in {"next", "prev", "play", "stop"} : Press(c)
           \/ ShuffleButton \/ OpenCurrent \/ CopyPlist \/ UNCHANGED vars
  <2>1. UNCHANGED <<loopMode, fixedShuffle, heard, slips>>
    BY <1>3 DEF Press, ShuffleButton, OpenCurrent, CopyPlist, vars, modes
  <2> QED BY <2>1 DEF Rest
<1>4. CASE HandleSelect
  <2>1. "overlap" \in Mishaps
    BY DEF Mishaps
  <2>2. slips' \subseteq Mishaps
    <3>1. (IF plist # <<>> THEN Overlap ELSE {}) \in SUBSET Mishaps
      BY <2>1 DEF Overlap
    <3>2. Handled(IF plist # <<>> THEN Overlap ELSE {})
      BY <1>4 DEF HandleSelect
    <3> QED BY <3>1, <3>2, HandledSlips
  <2>3. UNCHANGED <<loopMode, fixedShuffle>>
    BY <1>4 DEF HandleSelect, modes
  <2>4. UNCHANGED heard \/ play
    BY <1>4 DEF HandleSelect
  <2>5. heard' \in Songs \union {NoSong, Crashed}
    BY <1>0, <2>4, PlayHeard DEF Rest
  <2> QED BY <2>2, <2>3, <2>5 DEF Rest
<1>5. CASE HandlePlay
  <2>1. slips' \subseteq Mishaps
    BY <1>5, HandledSlips DEF HandlePlay
  <2>2. UNCHANGED <<loopMode, fixedShuffle>> /\ play
    BY <1>5 DEF HandlePlay, modes
  <2>3. heard' \in Songs \union {NoSong, Crashed}
    BY <1>0, <2>2, PlayHeard
  <2> QED BY <2>1, <2>2, <2>3 DEF Rest
<1>6. CASE HandleStop
  <2>1. slips' \subseteq Mishaps
    BY <1>6, HandledSlips DEF HandleStop
  <2> QED BY <1>6, <2>1 DEF HandleStop, modes, Rest
<1>7. CASE ShufMode
  <2>1. "overlap" \in Mishaps /\ "early" \in Mishaps
    BY DEF Mishaps
  <2>2. UNCHANGED <<loopMode, heard>>
    BY <1>7 DEF ShufMode
  <2>3. CASE playList = <<>>
    <3>1. slips' = Slip("early", shuffleMode' = 1) /\ UNCHANGED fixedShuffle
      BY <1>7, <2>3 DEF ShufMode
    <3>2. slips' \subseteq Mishaps
      BY <2>1, <3>1 DEF Slip, Rest
    <3> QED BY <2>2, <3>1, <3>2 DEF Rest
  <2>4. CASE playList # <<>>
    <3>1. slips' = slips \union Overlap /\ (ShuffleOn \/ ShuffleOff)
      BY <1>7, <2>4 DEF ShufMode
    <3>2. slips' \subseteq Mishaps
      BY <2>1, <3>1 DEF Overlap, Rest
    <3>3. fixedShuffle' \in BOOLEAN
      BY <3>1, Zenon DEF ShuffleOn, ShuffleOff
    <3> QED BY <2>2, <3>2, <3>3 DEF Rest
  <2> QED BY <2>3, <2>4
<1>8. CASE Ended
  BY <1>8 DEF Ended, modes, Rest
<1> QED BY <1>1, <1>2, <1>3, <1>4, <1>5, <1>6, <1>7, <1>8 DEF Next

\* The variables of the playlist model have their types in every reachable state,
\* for any playlists and any number of pending broadcasts.
THEOREM Typing == Spec => []TypeOK
<1>1. ASSUME Inv, Shows, Rest PROVE TypeOK
  <2>1. DOMAIN shuffledIndices = Index(playList)
    BY <1>1 DEF Inv, OrderInv, Shuffles, Bijection, Injection
  <2>2. playList \in Seq(Songs) /\ currSongNumber \in Int /\ realSongNumber \in Int
        /\ shuffleMode \in 0..2 /\ toUi \in Nat
    BY <1>1 DEF Inv, Typed, Shows
  <2> QED BY <1>1, <2>1, <2>2 DEF Rest, TypeOK
<1>2. Init => Inv /\ Shows /\ Rest
  <2>1. Init => Rest
    BY DEF Init, Rest
  <2> QED BY <2>1, InitInv, InitShows
<1>3. Inv /\ Shows /\ Rest /\ [Next]_vars => (Inv /\ Shows /\ Rest)'
  BY NextInv, NextShows, NextRest
<1> QED BY <1>1, <1>2, <1>3, PTL DEF Spec
=============================================================================
