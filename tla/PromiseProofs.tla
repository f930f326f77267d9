--------------------------- MODULE PromiseProofs ---------------------------
(***************************************************************************)
(* For any playlists and any number of pending broadcasts: the service     *)
(* keeps the promise of Jukebox (Kept).  Every step is one of the abstract *)
(* player or none, until one of the mishaps that excuse it.                *)
(*                                                                         *)
(* The invariants of SelectionProofs say that the numbers of the service   *)
(* mean what the promise says without numbers: the number of the current   *)
(* song is a place of the order, the song there is the one that stands in  *)
(* the list under its other number, and a selection finds the song it was  *)
(* made for.  What is left is to show of each handler that it makes the    *)
(* move of the abstract player.                                            *)
(***************************************************************************)
EXTENDS SelectionProofs, FunctionTheorems, SequenceTheorems

-----------------------------------------------------------------------------
(* Orders *)

\* The numbers of the places, and their places counted from 1.
LEMMA FromOne ==
    ASSUME NEW n \in Nat, NEW p \in Bijection(0..(n - 1), 0..(n - 1))
    PROVE  [i \in 1..n |-> p[i - 1] + 1] \in Bijection(1..n, 1..n)
<1> DEFINE q == [i \in 1..n |-> p[i - 1] + 1]
<1>1. /\ p \in [0..(n - 1) -> 0..(n - 1)]
      /\ \A i, j \in 0..(n - 1) : p[i] = p[j] => i = j
      /\ \A j \in 0..(n - 1) : \E i \in 0..(n - 1) : p[i] = j
  BY DEF Bijection, Injection, Surjection, IsInjective
<1>2. \A i \in 1..n : i - 1 \in 0..(n - 1) /\ p[i - 1] \in 0..(n - 1) /\ q[i] = p[i - 1] + 1
  BY <1>1
<1>3. q \in [1..n -> 1..n]
  BY <1>2
<1>4. ASSUME NEW i \in 1..n, NEW j \in 1..n, q[i] = q[j] PROVE i = j
  <2>1. p[i - 1] = p[j - 1]
    BY <1>2, <1>4
  <2>2. i - 1 = j - 1
    BY <1>1, <1>2, <2>1
  <2> QED BY <2>2
<1>5. ASSUME NEW j \in 1..n PROVE \E i \in 1..n : q[i] = j
  <2>1. j - 1 \in 0..(n - 1)
    OBVIOUS
  <2>2. PICK i \in 0..(n - 1) : p[i] = j - 1
    BY <1>1, <2>1
  <2>3. i + 1 \in 1..n /\ (i + 1) - 1 = i
    OBVIOUS
  <2>4. q[i + 1] = j
    BY <2>2, <2>3
  <2> QED BY <2>3, <2>4
<1> HIDE DEF q
<1>6. q \in Bijection(1..n, 1..n)
  BY <1>3, <1>4, <1>5, Fun_IsBij
<1> QED BY <1>6 DEF q

\* A list is played in an order of its places.
LEMMA OrderOfPlaces ==
    ASSUME NEW list \in Seq(Songs), NEW p \in Shuffles(list), NEW mode
    PROVE  \E q \in Bijection(1..Len(list), 1..Len(list)) :
               InOrder(list, p, mode) = [i \in 1..Len(list) |-> list[q[i]]]
<1> DEFINE n == Len(list)
<1>1. n \in Nat /\ list = [i \in 1..n |-> list[i]]
  OBVIOUS
<1>2. CASE mode = 1
  <2> DEFINE q == [i \in 1..n |-> p[i - 1] + 1]
  <2>1. q \in Bijection(1..n, 1..n)
    BY <1>1, FromOne DEF Shuffles, Index
  <2>2. InOrder(list, p, mode) = [i \in 1..n |-> list[q[i]]]
    BY <1>2 DEF InOrder, SongAt
  <2> QED BY <2>1, <2>2
<1>3. CASE mode # 1
  <2> DEFINE q == [i \in 1..n |-> i]
  <2>1. q \in Bijection(1..n, 1..n)
    BY Fun_IsBij
  <2>2. InOrder(list, p, mode) = [i \in 1..n |-> list[q[i]]]
    BY <1>1, <1>3 DEF InOrder
  <2> QED BY <2>1, <2>2
<1> QED BY <1>2, <1>3

LEMMA SameBijection == \A S, T : Promise!Bijection(S, T) = Bijection(S, T)
BY DEF Promise!Bijection, Promise!Injection, Promise!Surjection, Promise!IsInjective,
       Bijection, Injection, Surjection, IsInjective

\* Two orders of a list are reorderings of each other, and of the list.
LEMMA OrdersReorder ==
    ASSUME NEW list \in Seq(Songs), NEW p \in Shuffles(list), NEW mode,
           NEW r \in Shuffles(list), NEW mode2
    PROVE  /\ InOrder(list, p, mode) \in Promise!Reorderings(list)
           /\ InOrder(list, r, mode2) \in Promise!Reorderings(InOrder(list, p, mode))
<1> DEFINE n == Len(list)
           N == 1..n
<1>1. PICK f \in Bijection(N, N) : InOrder(list, p, mode) = [i \in N |-> list[f[i]]]
  BY OrderOfPlaces
<1>2. PICK g \in Bijection(N, N) : InOrder(list, r, mode2) = [i \in N |-> list[g[i]]]
  BY OrderOfPlaces
<1> DEFINE back == Inverse(f, N, N)
           h == [i \in N |-> back[g[i]]]
<1>3. back \in Bijection(N, N) /\ \A i \in N : back[f[i]] = i
  BY Fun_BijInverse
<1>4. h \in Bijection(N, N)
  BY <1>3, Fun_BijTransitive
<1>5. \A i \in N : f[back[i]] = i
  <2>1. \A i \in N : \E j \in N : f[j] = i
    BY DEF Bijection, Surjection
  <2> QED BY <1>3, <2>1
<1>6. \A i \in N : g[i] \in N /\ h[i] \in N /\ f[h[i]] = g[i]
  <2>1. g \in [N -> N] /\ h \in [N -> N]
    BY <1>4 DEF Bijection, Injection
  <2> QED BY <1>5, <2>1
<1>7. n \in Nat
  OBVIOUS
<1> DEFINE a == [i \in N |-> list[f[i]]]
<1>8. Len(a) = n
  BY <1>7
<1>9. [i \in N |-> list[g[i]]] = [i \in 1..Len(a) |-> a[h[i]]]
  BY <1>6, <1>8
<1> HIDE DEF h, back, a
<1>10. \A l : \A q \in Bijection(1..Len(l), 1..Len(l)) :
          [i \in 1..Len(l) |-> l[q[i]]] \in Promise!Reorderings(l)
  BY SameBijection, Zenon DEF Promise!Reorderings
<1>11. [i \in N |-> list[f[i]]] \in Promise!Reorderings(list)
  BY <1>10, Zenon
<1>12. [i \in 1..Len(a) |-> a[h[i]]] \in Promise!Reorderings(a)
  <2>1. h \in Bijection(1..Len(a), 1..Len(a))
    BY <1>4, <1>8
  <2> QED BY <1>10, <2>1, Zenon
<1> QED BY <1>1, <1>2, <1>9, <1>11, <1>12 DEF a

\* The order has as many places as the list, and no more songs.
LEMMA OrderLen ==
    ASSUME Inv
    PROVE  /\ Len(Order) = Len(playList) /\ Len(playList) \in Nat
           /\ Order = <<>> <=> playList = <<>>
           /\ Promise!Places(Order) = Index(playList)
<1>1. playList \in Seq(Songs) /\ shuffledIndices \in Shuffles(playList)
  BY DEF Inv, Typed, OrderInv
<1>2. PICK q \in Bijection(1..Len(playList), 1..Len(playList)) :
          Order = [i \in 1..Len(playList) |-> playList[q[i]]]
  BY <1>1, OrderOfPlaces DEF Order
<1>3. Len(playList) \in Nat
  BY <1>1
<1>4. Len(Order) = Len(playList)
  BY <1>2, <1>3
<1>5. Order \in Seq(Songs)
  BY <1>1, OrderTyped DEF Order
<1> QED BY <1>1, <1>3, <1>4, <1>5 DEF Promise!Places, Index

\* The song at the current place of the order is the one the list has under the
\* other number.
LEMMA CurrentSong ==
    ASSUME Inv, Chosen, "early" \notin slips, playList # <<>>
    PROVE  /\ currSongNumber \in Index(playList)
           /\ SongAt(Order, currSongNumber) = SongAt(playList, realSongNumber)
<1>1. currSongNumber \in Index(playList) /\ heard # Crashed
  BY DEF Chosen, InList
<1>2. realSongNumber = IF shuffleMode = 1 THEN Get(shuffledIndices, currSongNumber)
                                          ELSE currSongNumber
  BY <1>1 DEF Inv, CurrentIsReal
<1>3. playList \in Seq(Songs) /\ shuffledIndices \in Shuffles(playList)
  BY DEF Inv, Typed, OrderInv
<1> QED BY <1>1, <1>2, <1>3, OrderPlaces DEF Order

-----------------------------------------------------------------------------
(* The queue *)

Commanded == [cmd : Commands, song : Songs \union {NoSong}, auto : BOOLEAN]

Request(m) == [cmd |-> m.cmd, song |-> m.song, auto |-> m.auto]
Requests(q) == [i \in DOMAIN q |-> Request(q[i])]

LEMMA AskedIs == Asked = Requests(toService) /\ Asked' = Requests(toService')
BY DEF Asked, Requests, Request

\* What is asked is what waits for the service, message by message.
LEMMA RequestsOf ==
    ASSUME NEW q \in Seq(Msg)
    PROVE  /\ Requests(q) \in Seq(Commanded) /\ Len(Requests(q)) = Len(q)
           /\ Len(q) \in Nat /\ DOMAIN q = 1..Len(q) /\ DOMAIN Requests(q) = 1..Len(q)
           /\ \A i \in 1..Len(q) : Requests(q)[i] = Request(q[i])
<1>1. Len(q) \in Nat /\ DOMAIN q = 1..Len(q)
  OBVIOUS
<1>2. \A i \in 1..Len(q) : Request(q[i]) \in Commanded
  <2>1. \A i \in 1..Len(q) : q[i] \in Msg
    OBVIOUS
  <2> QED BY <2>1 DEF Msg, Commanded, Request
<1>3. Requests(q) = [i \in 1..Len(q) |-> Request(q[i])]
  BY <1>1 DEF Requests
<1> QED BY <1>1, <1>2, <1>3

\* Messages that are sent are asked for after the others.
LEMMA AskedSent ==
    ASSUME toService \in Seq(Msg), NEW msgs \in Seq(Msg), toService' = toService \o msgs
    PROVE  /\ Len(Asked') = Len(Asked) + Len(msgs)
           /\ SubSeq(Asked', 1, Len(Asked)) = Asked
           /\ \A i \in 1..Len(msgs) : Asked'[Len(Asked) + i] = Request(msgs[i])
<1> DEFINE n == Len(toService)
           m == Len(msgs)
<1>1. /\ n \in Nat /\ m \in Nat /\ toService' \in Seq(Msg)
      /\ DOMAIN toService' = 1..(n + m)
      /\ \A i \in 1..n : toService'[i] = toService[i]
      /\ \A i \in 1..m : toService'[n + i] = msgs[i]
  BY AppendTo
<1>2. /\ Asked \in Seq(Commanded) /\ Len(Asked) = n
      /\ \A i \in 1..n : Asked[i] = Request(toService[i])
  BY AskedIs, RequestsOf
<1>3. /\ Asked' \in Seq(Commanded) /\ Len(Asked') = Len(toService')
      /\ \A i \in 1..Len(toService') : Asked'[i] = Request(toService'[i])
  BY <1>1, AskedIs, RequestsOf
<1>4. Len(toService') = n + m
  BY <1>1
<1> HIDE DEF n, m
<1>5. ASSUME NEW i \in 1..n PROVE Asked'[i] = Asked[i]
  <2>1. i \in 1..Len(toService')
    BY <1>1, <1>4
  <2>2. Asked'[i] = Request(toService'[i]) /\ toService'[i] = toService[i]
    BY <1>1, <1>3, <2>1
  <2> QED BY <1>2, <2>2
<1>6. ASSUME NEW i \in 1..m PROVE Asked'[n + i] = Request(msgs[i])
  <2>1. n + i \in 1..(n + m)
    BY <1>1
  <2>2. Asked'[n + i] = Request(toService'[n + i]) /\ toService'[n + i] = msgs[i]
    BY <1>1, <1>3, <1>4, <2>1
  <2> QED BY <2>2
<1>7. SubSeq(Asked', 1, n) = Asked
  <2>1. SubSeq(Asked', 1, n) = [i \in 1..n |-> Asked'[i]]
    BY <1>1, <1>3, <1>4
  <2>2. Asked = [i \in 1..n |-> Asked[i]]
    BY <1>2
  <2> QED BY <1>5, <2>1, <2>2
<1> QED BY <1>2, <1>3, <1>4, <1>6, <1>7 DEF m

\* Serving a message takes it off what is asked; with nothing of its own among
\* the others there is nothing for the box to forget.
LEMMA AskedServed ==
    ASSUME toService \in Seq(Msg), toService # <<>>, Served
    PROVE  /\ Asked # <<>> /\ Head(Asked) = Request(Head(toService))
           /\ Asked' = Tail(Asked)
           /\ (\A i \in 2..Len(toService) : ~toService[i].auto) =>
                  Promise!Forgetting(Tail(Asked), Asked')
<1> DEFINE n == Len(toService)
<1>1. /\ toService' \in Seq(Msg) /\ n \in Nat \ {0} /\ Head(toService) = toService[1]
      /\ DOMAIN toService' = 1..(n - 1)
      /\ \A i \in 1..(n - 1) : toService'[i] = toService[i + 1]
  BY TailOf DEF Served
<1>2. /\ Asked \in Seq(Commanded) /\ Len(Asked) = n
      /\ \A i \in 1..n : Asked[i] = Request(toService[i])
  BY AskedIs, RequestsOf
<1>3. /\ Asked' \in Seq(Commanded) /\ Len(Asked') = Len(toService')
      /\ \A i \in 1..Len(toService') : Asked'[i] = Request(toService'[i])
  BY <1>1, AskedIs, RequestsOf
<1>4. Len(toService') = n - 1
  BY <1>1
<1> HIDE DEF n
<1>5. Asked # <<>> /\ Head(Asked) = Request(Head(toService))
  BY <1>1, <1>2
<1>6. Asked' = Tail(Asked)
  <2>1. /\ DOMAIN Tail(Asked) = 1..(n - 1) /\ Tail(Asked) \in Seq(Commanded)
        /\ \A i \in 1..(n - 1) : Tail(Asked)[i] = Asked[i + 1]
    BY <1>2, <1>5, TailOf
  <2>2. ASSUME NEW i \in 1..(n - 1) PROVE Asked'[i] = Asked[i + 1]
    <3>1. i \in 1..Len(toService') /\ i + 1 \in 1..n
      BY <1>1, <1>4
    <3>2. Asked'[i] = Request(toService'[i]) /\ toService'[i] = toService[i + 1]
      BY <1>1, <1>3, <3>1
    <3> QED BY <1>2, <3>1, <3>2
  <2>3. Len(Asked') = Len(Tail(Asked))
    BY <1>3, <1>4, <2>1
  <2> QED BY <1>3, <1>4, <2>1, <2>2, <2>3, SeqEqual
<1>7. ASSUME \A i \in 2..Len(toService) : ~toService[i].auto
      PROVE  Promise!Forgetting(Tail(Asked), Asked')
  <2> DEFINE D == DOMAIN Asked'
             kept == [i \in D |-> i]
  <2>1. D = 1..(n - 1)
    BY <1>3, <1>4
  <2>2. \A i \in D : ~Asked'[i].auto
    <3>1. \A i \in 1..(n - 1) : i + 1 \in 2..n /\ ~toService[i + 1].auto
      BY <1>1, <1>7 DEF n
    <3> QED BY <1>1, <1>3, <1>4, <2>1, <3>1 DEF Request
  <2>3. Promise!OfListener(Tail(Asked)) = D
    BY <1>6, <2>2 DEF Promise!OfListener
  <2>4. kept \in Bijection(D, D)
    BY Fun_IsBij
  <2>5. kept \in Promise!Bijection(DOMAIN Asked', Promise!OfListener(Tail(Asked)))
    BY <2>3, <2>4, SameBijection
  <2>6. /\ \A i \in D : Asked'[i] = Tail(Asked)[kept[i]]
        /\ \A i, j \in D : i < j => kept[i] < kept[j]
    BY <1>6
  <2> HIDE DEF kept
  <2> QED BY <2>5, <2>6 DEF Promise!Forgetting
<1> QED BY <1>5, <1>6, <1>7

-----------------------------------------------------------------------------
(* The activity and the watcher *)

\* Messages of the listener are asked for.
LEMMA Asks ==
    ASSUME toService \in Seq(Msg), NEW msgs \in Seq(Msg), Len(msgs) \in {1, 2},
           toService' = toService \o msgs, \A i \in 1..Len(msgs) : ~msgs[i].auto,
           UNCHANGED <<order, shuffleMode, currSongNumber, heard>>
    PROVE  Promise!Ask
<1> DEFINE m == Len(msgs)
           n == Len(Asked)
<1>1. /\ Len(Asked') = n + m /\ SubSeq(Asked', 1, n) = Asked
      /\ \A i \in 1..m : Asked'[n + i] = Request(msgs[i])
  BY AskedSent
<1>2. n \in Nat /\ m \in {1, 2}
  BY AskedIs, RequestsOf
<1> HIDE DEF n
<1>3. ASSUME NEW i \in (n + 1)..(n + m) PROVE ~Asked'[i].auto
  <2>1. i - n \in 1..m /\ n + (i - n) = i
    BY <1>2
  <2>2. Asked'[i] = Request(msgs[i - n]) /\ ~msgs[i - n].auto
    BY <1>1, <2>1
  <2> QED BY <2>2 DEF Request
<1>4. Order' = Order
  BY SameOrderShown
<1> HIDE DEF m
<1>5. UNCHANGED <<Order, currSongNumber, heard, shuffleMode = 2>>
  BY <1>4
<1>6. SubSeq(Asked', 1, Len(Asked)) = Asked
  BY <1>1 DEF n
<1>7. m \in {1, 2} /\ Len(Asked') = Len(Asked) + m
      /\ \A i \in (Len(Asked) + 1)..Len(Asked') : ~Asked'[i].auto
  BY <1>1, <1>2, <1>3 DEF n
<1> QED BY <1>5, <1>6, <1>7 DEF Promise!Ask

\* A selection asks for a stop and the song.
LEMMA SelectAsks ==
    ASSUME Inv, NEW files \in Seq(Songs), NEW n \in Index(files),
           NEW copyPlist \in BOOLEAN, Select(files, n, copyPlist)
    PROVE  Promise!Ask
<1> DEFINE stop == Cmd("stop", FALSE)
           sel == SelectCmd(n, copyPlist, SongAt(files, n))
<1>1. stop \in Msg /\ sel \in Msg
  BY SelectionSent
<1>2. ~stop.auto /\ ~sel.auto
  BY DEF Cmd, SelectCmd
<1>3. /\ toService' = toService \o <<stop, sel>>
      /\ UNCHANGED <<order, shuffleMode, currSongNumber, heard>>
  BY DEF Select, Send, modes, place
<1> HIDE DEF stop, sel
<1>4. /\ <<stop, sel>> \in Seq(Msg) /\ Len(<<stop, sel>>) = 2
      /\ <<stop, sel>>[1] = stop /\ <<stop, sel>>[2] = sel
  BY <1>1, Messages
<1>5. \A i \in 1..Len(<<stop, sel>>) : ~<<stop, sel>>[i].auto
  BY <1>2, <1>4
<1>6. toService \in Seq(Msg)
  BY DEF Inv, Typed
<1> QED BY <1>3, <1>4, <1>5, <1>6, Asks

\* Each button asks for its command.
LEMMA ButtonAsks ==
    ASSUME Inv, ShuffleButton \/ \E c \in {"next", "prev", "play", "stop"} : Press(c)
    PROVE  Promise!Ask
<1>1. ASSUME NEW m \in Msg, ~m.auto, toService' = toService \o <<m>>,
             UNCHANGED <<order, shuffleMode, currSongNumber, heard>>
      PROVE  Promise!Ask
  <2>1. <<m>> \in Seq(Msg) /\ Len(<<m>>) = 1 /\ <<m>>[1] = m
    BY Messages
  <2>2. \A i \in 1..Len(<<m>>) : ~<<m>>[i].auto
    BY <1>1, <2>1
  <2>3. toService \in Seq(Msg)
    BY DEF Inv, Typed
  <2> QED BY <1>1, <2>1, <2>2, <2>3, Asks
<1>2. ASSUME NEW c \in {"next", "prev", "play", "stop"}, Press(c) PROVE Promise!Ask
  <2>1. c \in Commands
    BY DEF Commands
  <2>2. FALSE \in BOOLEAN
    BY Zenon
  <2>3. Cmd(c, FALSE) \in Msg
    BY <2>1, <2>2, CmdTyped
  <2>4. ~Cmd(c, FALSE).auto
    BY DEF Cmd
  <2>5. toService' = toService \o <<Cmd(c, FALSE)>>
        /\ UNCHANGED <<order, shuffleMode, currSongNumber, heard>>
    BY <1>2 DEF Press, Send, modes, place
  <2> QED BY <1>1, <2>3, <2>4, <2>5
<1>3. CASE ShuffleButton
  <2> DEFINE m == [Cmd("mode", FALSE) EXCEPT !.num = buttonMode']
  <2>1. buttonMode' \in Int
    BY <1>3 DEF ShuffleButton, Inv, Typed
  <2>2. m \in Msg
    BY <2>1, ModeTyped
  <2>3. ~m.auto
    BY DEF Cmd
  <2>4. toService' = toService \o <<m>>
        /\ UNCHANGED <<order, shuffleMode, currSongNumber, heard>>
    BY <1>3 DEF ShuffleButton, Send, modes, place
  <2> HIDE DEF m
  <2> QED BY <1>1, <2>2, <2>3, <2>4
<1> QED BY <1>2, <1>3

\* What only the activity sees, and the loop mode, is no part of the promise.
LEMMA OthersStutter ==
    ASSUME LoopMode \/ OpenCurrent \/ CopyPlist \/ UNCHANGED vars
    PROVE  UNCHANGED Promise!vars
<1>1. UNCHANGED <<order, shuffleMode, currSongNumber, heard, toService, slips>>
  BY DEF LoopMode, OpenCurrent, CopyPlist, vars, modes, place
<1>2. Order' = Order
  BY <1>1, SameOrderShown
<1>3. Asked' = Asked
  BY <1>1, AskedIs
<1>4. (shuffleMode = 2)' = (shuffleMode = 2)
  BY <1>1
<1>5. Excuse' = Excuse
  BY <1>1 DEF Excuse
<1> QED BY <1>1, <1>2, <1>3, <1>4, <1>5 DEF Promise!vars

\* The end of a song may make the watcher ask for the next or the same one.
LEMMA EndedEnds ==
    ASSUME Inv, Ended
    PROVE  Promise!End
<1> DEFINE nx == Cmd("next", TRUE)
           pl == Cmd("play", TRUE)
<1>1. nx \in Msg /\ nx.cmd = "next" /\ nx.auto /\ pl \in Msg /\ pl.cmd = "play" /\ pl.auto
  <2>1. "next" \in Commands /\ "play" \in Commands
    BY DEF Commands
  <2>2. TRUE \in BOOLEAN
    BY Zenon
  <2>3. nx \in Msg /\ nx.cmd = "next" /\ pl \in Msg /\ pl.cmd = "play"
    BY <2>1, <2>2, CmdTyped
  <2>4. nx.auto /\ pl.auto
    BY DEF Cmd
  <2> QED BY <2>3, <2>4
<1>2. \E msgs \in {<<nx>>, <<pl>>, <<>>} : toService' = toService \o msgs
  BY Zenon DEF Ended
<1> HIDE DEF nx, pl
<1>3. PICK msgs \in {<<nx>>, <<pl>>, <<>>} : toService' = toService \o msgs
  BY <1>2
<1>4. toService \in Seq(Msg)
  BY DEF Inv, Typed
<1>5. UNCHANGED <<order, shuffleMode, currSongNumber>> /\ heard \in Songs /\ heard' = NoSong
  BY DEF Ended, modes, place
<1>6. heard # NoSong
  BY <1>5, OutcomeAssumption
<1>7. UNCHANGED <<Order, currSongNumber, shuffleMode = 2>>
  BY <1>5, SameOrderShown
<1>8. CASE msgs = <<>>
  <2>1. toService' = toService
    BY <1>3, <1>4, <1>8
  <2>2. Asked' = Asked
    BY <2>1, AskedIs
  <2> QED BY <1>5, <1>6, <1>7, <2>2 DEF Promise!End
<1>9. ASSUME NEW m \in {nx, pl}, msgs = <<m>> PROVE Promise!End
  <2>1. m \in Msg /\ m.auto /\ m.cmd \in {"next", "play"}
    BY <1>1
  <2>2. <<m>> \in Seq(Msg) /\ Len(<<m>>) = 1 /\ <<m>>[1] = m
    BY <2>1, Messages
  <2> DEFINE one == <<m>>
  <2>3. toService' = toService \o one
    BY <1>3, <1>9
  <2>4. one \in Seq(Msg) /\ Len(one) = 1 /\ one[1] = m
    BY <2>2
  <2> HIDE DEF one
  <2>5. /\ Len(Asked') = Len(Asked) + Len(one)
        /\ SubSeq(Asked', 1, Len(Asked)) = Asked
        /\ \A i \in 1..Len(one) : Asked'[Len(Asked) + i] = Request(one[i])
    BY <1>4, <2>3, <2>4, AskedSent
  <2>6. /\ Len(Asked') = Len(Asked) + 1 /\ SubSeq(Asked', 1, Len(Asked)) = Asked
        /\ Asked'[Len(Asked) + 1] = Request(m)
    BY <2>4, <2>5
  <2>7. Asked'[Len(Asked')].auto /\ Asked'[Len(Asked')].cmd \in {"next", "play"}
    BY <2>1, <2>6 DEF Request
  <2> QED BY <1>5, <1>6, <1>7, <2>6, <2>7 DEF Promise!End
<1> QED BY <1>3, <1>8, <1>9

-----------------------------------------------------------------------------
(* The service *)

LEMMA Arithmetic ==
    ASSUME NEW n \in Nat \ {0}, NEW i \in 0..(n - 1)
    PROVE  /\ (i + 1) % n = IF i + 1 >= n THEN 0 ELSE i + 1
           /\ (i - 1) % n = IF i = 0 THEN n - 1 ELSE i - 1
OBVIOUS

\* As long as nothing is excused there is no command of the box behind the one
\* that is served.
LEMMA NothingLate ==
    ASSUME NEW more, Handled(more), ~Excuse'
    PROVE  Served /\ \A i \in 2..Len(toService) : ~toService[i].auto
<1>1. Served /\ slips' = slips \union more \union
         (IF \E i \in 2..Len(toService) : toService[i].auto THEN {"late"} ELSE {})
  BY Zenon DEF Handled
<1>2. "late" \notin slips'
  BY DEF Excuse
<1> QED BY <1>1, <1>2

\* A message is served that has its effect on the abstract player.
LEMMA ServedServes ==
    ASSUME Inv, toService # <<>>, NEW more, Handled(more), ~Excuse', UNCHANGED shuffleMode,
           Head(toService).cmd # "mode", Promise!Effect(Head(Asked))
    PROVE  Promise!Serve
<1>1. Served /\ \A i \in 2..Len(toService) : ~toService[i].auto
  BY NothingLate
<1>2. toService \in Seq(Msg)
  BY DEF Inv, Typed
<1>3. /\ Asked # <<>> /\ Head(Asked).cmd = Head(toService).cmd
      /\ Promise!Forgetting(Tail(Asked), Asked')
  BY <1>1, <1>2, AskedServed DEF Request
<1>4. UNCHANGED (shuffleMode = 2)
  OBVIOUS
<1> QED BY <1>3, <1>4 DEF Promise!Serve

\* What is asked for first.
LEMMA FirstAsked ==
    ASSUME Inv, toService # <<>>, Served
    PROVE  /\ Asked # <<>> /\ Asked' = Tail(Asked)
           /\ Head(Asked).cmd = Head(toService).cmd /\ Head(Asked).song = Head(toService).song
<1>1. toService \in Seq(Msg)
  BY DEF Inv, Typed
<1> QED BY <1>1, AskedServed DEF Request

\* A step that leaves the order and stays at a place of it starts the song there.
LEMMA PlayStarts ==
    ASSUME Inv, Inv', play, UNCHANGED <<order, shuffleMode>>,
           playList # <<>>, currSongNumber' \in Index(playList)
    PROVE  Promise!Start /\ Order' = Order
<1>1. Order' = Order /\ playList' = playList
  BY SameOrderShown DEF order
<1>2. OrderInv' /\ playList' \in Seq(Songs) /\ currSongNumber' \in Index(playList')
  BY <1>1 DEF Inv, Typed
<1>3. /\ heard' \in {NoSong, SongAt(playList', realSongNumber')}
      /\ SongAt(playList', realSongNumber') = SongAt(Order', currSongNumber')
  BY <1>1, <1>2, PlayReads
<1> QED BY <1>1, <1>3 DEF Promise!Start, Promise!SongAt, SongAt

\* Next, previous and play.
LEMMA PlayServes ==
    ASSUME Inv, Inv', Chosen, HandlePlay, ~Excuse'
    PROVE  Promise!Serve
<1>1. /\ toService # <<>> /\ Handled({}) /\ play /\ UNCHANGED <<order, shuffleMode>>
      /\ Head(toService).cmd \in {"next", "prev", "play"}
      /\ Head(toService).cmd = "next" => next
      /\ Head(toService).cmd = "prev" => previous
      /\ Head(toService).cmd = "play" => UNCHANGED currSongNumber
  BY DEF HandlePlay, Serving, modes
<1>2. Head(Asked).cmd = Head(toService).cmd
  BY <1>1, FirstAsked DEF Handled
<1>3. /\ Len(Order) = Len(playList) /\ Len(playList) \in Nat
      /\ Order = <<>> <=> playList = <<>>
      /\ Promise!Places(Order) = Index(playList)
  BY OrderLen
<1>4. Promise!Effect(Head(Asked))
  <2>1. CASE playList = <<>>
    <3>1. UNCHANGED currSongNumber /\ UNCHANGED heard
      BY <1>1, <2>1 DEF next, previous, play, order
    <3>2. Order' = Order
      BY <1>1, SameOrderShown
    <3> QED BY <1>1, <1>2, <1>3, <2>1, <3>1, <3>2 DEF Promise!Effect, Promise!Stays
  <2>2. CASE playList # <<>>
    <3> DEFINE n == Len(playList)
    <3>1. n \in Nat \ {0} /\ currSongNumber \in 0..(n - 1) /\ currSongNumber >= 0
          /\ Index(playList) = 0..(n - 1)
      <4>1. currSongNumber \in 0..(n - 1)
        BY <2>2 DEF Chosen, InList, Index
      <4> QED BY <1>3, <4>1 DEF Index
    <3>2. /\ (currSongNumber + 1) % n = IF currSongNumber + 1 >= n THEN 0 ELSE currSongNumber + 1
          /\ (currSongNumber - 1) % n = IF currSongNumber = 0 THEN n - 1 ELSE currSongNumber - 1
      BY <3>1, Arithmetic
    <3> HIDE DEF n
    <3>3. Head(toService).cmd = "next" =>
             currSongNumber' \in IF shuffleMode = 2 THEN Promise!Elsewhere ELSE Promise!Forward
      <4> SUFFICES ASSUME Head(toService).cmd = "next"
                   PROVE  currSongNumber' \in IF shuffleMode = 2 THEN Promise!Elsewhere
                                                                ELSE Promise!Forward
        OBVIOUS
      <4>1. IF n = 1 THEN UNCHANGED currSongNumber
            ELSE IF shuffleMode = 2 THEN currSongNumber' \in Index(playList) \ {currSongNumber}
            ELSE currSongNumber' = (currSongNumber + 1) % n
        BY <1>1, <2>2, <3>1, <3>2 DEF next, n
      <4>2. n = 1 => (currSongNumber + 1) % n = currSongNumber
        BY <3>1, <3>2
      <4>3. Len(Order) = n
        BY <1>3 DEF n
      <4> QED BY <1>3, <4>1, <4>2, <4>3 DEF Promise!Elsewhere, Promise!Forward
    <3>4. Head(toService).cmd = "prev" => currSongNumber' \in Promise!Backward
      <4>1. Head(toService).cmd = "prev" => currSongNumber' = (currSongNumber - 1) % n
        BY <1>1, <2>2, <3>1, <3>2 DEF previous, n
      <4>2. Len(Order) = n
        BY <1>3 DEF n
      <4> QED BY <4>1, <4>2 DEF Promise!Backward
    <3>5. Head(toService).cmd = "play" => currSongNumber' \in {currSongNumber}
      BY <1>1
    <3>6. currSongNumber' \in Index(playList)
      <4>1. Head(toService).cmd = "next" => currSongNumber' \in 0..(n - 1)
        BY <1>1, <2>2, <3>1 DEF next, n
      <4>2. Head(toService).cmd = "prev" => currSongNumber' \in 0..(n - 1)
        BY <1>1, <2>2, <3>1 DEF previous, n
      <4> QED BY <1>1, <3>1, <4>1, <4>2
    <3>7. Promise!Start /\ Order' = Order
      BY <1>1, <2>2, <3>6, PlayStarts
    <3>8. Order # <<>>
      BY <1>3, <2>2
    <3> QED BY <1>1, <1>2, <3>3, <3>4, <3>5, <3>7, <3>8 DEF Promise!Effect, Promise!Move
  <2> QED BY <2>1, <2>2
<1> QED BY <1>1, <1>4, ServedServes

LEMMA StopServes ==
    ASSUME Inv, HandleStop, ~Excuse'
    PROVE  Promise!Serve
<1>1. /\ toService # <<>> /\ Handled({}) /\ Head(toService).cmd = "stop" /\ heard' = NoSong
      /\ UNCHANGED <<order, currSongNumber, shuffleMode>>
  BY DEF HandleStop, Serving, modes, place
<1>2. Head(Asked).cmd = "stop"
  BY <1>1, FirstAsked DEF Handled
<1>3. Order' = Order
  BY <1>1, SameOrderShown
<1>4. Promise!Effect(Head(Asked))
  BY <1>1, <1>2, <1>3 DEF Promise!Effect, Promise!Stays
<1> QED BY <1>1, <1>4, ServedServes

\* A selection: the list is kept, or another is played in an order of its own.
LEMMA SelectServes ==
    ASSUME Inv, Inv', Chosen, HandleSelect, ~Excuse'
    PROVE  Promise!Serve
<1>1. toService # <<>> /\ Head(toService).cmd = "select" /\ UNCHANGED shuffleMode
      /\ Handled(IF plist # <<>> THEN Overlap ELSE {})
  BY DEF HandleSelect, Serving, modes
<1>2. /\ Head(Asked).cmd = "select" /\ Head(Asked).song = Head(toService).song
  BY <1>1, FirstAsked DEF Handled
<1>3. /\ heard' \in {NoSong, Head(toService).song}
      /\ playList' # <<>> /\ currSongNumber' \in Index(playList')
      /\ SongAt(Order', currSongNumber') = Head(toService).song
      /\ UNCHANGED order \/ playList' \in Lists
  BY HandledChosen
<1>4. playList' \in Seq(Songs) /\ shuffledIndices' \in Shuffles(playList')
  BY DEF Inv, Typed, OrderInv, Shuffles, Index
<1>5. Order' = InOrder(playList', shuffledIndices', shuffleMode)
  BY <1>1 DEF Order, InOrder, SongAt
<1>6. Order' \in {Order} \union UNION {Promise!Reorderings(list) : list \in Lists}
  <2>1. CASE UNCHANGED order
    BY <1>1, <2>1, SameOrderShown
  <2>2. CASE playList' \in Lists
    <3>1. Order' \in Promise!Reorderings(playList')
      BY <1>4, <1>5, OrdersReorder
    <3>2. Promise!Reorderings(playList') \in {Promise!Reorderings(list) : list \in Lists}
      BY <2>2, Zenon
    <3> QED BY <3>1, <3>2
  <2> QED BY <1>3, <2>1, <2>2
<1>7. currSongNumber' \in Promise!Places(Order')
  BY <1>3, <1>4, <1>5, OrderPlaces DEF Promise!Places, Index
<1>8. Promise!SongAt(Order', currSongNumber') = Head(toService).song
  BY <1>3 DEF Promise!SongAt, SongAt
<1>9. Promise!Start
  BY <1>3, <1>8 DEF Promise!Start
<1>10. Promise!Effect(Head(Asked))
  BY <1>2, <1>6, <1>7, <1>8, <1>9 DEF Promise!Effect, Promise!Selected
<1> QED BY <1>1, <1>10, ServedServes

\* Another shuffle mode: the same songs in another order, and the current one
\* stays current.
LEMMA ModeServes ==
    ASSUME Inv, Inv', Chosen, Chosen', ShufMode, ~Excuse', slips \subseteq slips'
    PROVE  Promise!Serve
<1>1. /\ toService # <<>> /\ Served /\ Head(toService).cmd = "mode"
      /\ UNCHANGED <<playList, realSongNumber, heard>>
  BY DEF ShufMode, Serving, order
<1>2. /\ Asked # <<>> /\ Asked' = Tail(Asked) /\ Head(Asked).cmd = "mode"
  BY <1>1, FirstAsked
<1>3. playList \in Seq(Songs) /\ shuffledIndices \in Shuffles(playList)
      /\ shuffledIndices' \in Shuffles(playList)
  BY <1>1 DEF Inv, Typed, OrderInv, Shuffles, Index
<1>4. Order' = InOrder(playList, shuffledIndices', shuffleMode')
  BY <1>1 DEF Order, InOrder, SongAt
<1>5. "early" \notin slips' /\ "early" \notin slips
  BY DEF Excuse
<1>6. Promise!Effect(Head(Asked))
  <2>1. CASE playList = <<>>
    <3>1. Order = <<>> /\ Order' = <<>>
      BY <1>4, <2>1, EmptyOrder DEF Order
    <3>2. UNCHANGED currSongNumber
      BY <2>1 DEF ShufMode
    <3> QED BY <1>1, <1>2, <3>1, <3>2 DEF Promise!Effect, Promise!Stays
  <2>2. CASE playList # <<>>
    <3>1. Order' \in Promise!Reorderings(Order)
      BY <1>3, <1>4, OrdersReorder DEF Order
    <3>2. SongAt(Order, currSongNumber) = SongAt(playList, realSongNumber)
      BY <1>5, <2>2, CurrentSong
    <3>3. currSongNumber' \in Index(playList) /\ heard' # Crashed
      BY <1>1, <2>2 DEF Chosen, InList, Index
    <3>4. realSongNumber' = IF shuffleMode' = 1 THEN Get(shuffledIndices', currSongNumber')
                                                ELSE currSongNumber'
      BY <1>1, <1>5, <2>2, <3>3 DEF Inv, CurrentIsReal, Get
    <3>5. /\ Index(Order') = Index(playList)
          /\ SongAt(Order', currSongNumber') = SongAt(playList, realSongNumber')
      BY <1>3, <1>4, <3>3, <3>4, OrderPlaces
    <3>6. /\ currSongNumber' \in Promise!Places(Order')
          /\ Promise!SongAt(Order', currSongNumber') = Promise!SongAt(Order, currSongNumber)
      BY <1>1, <3>2, <3>3, <3>5 DEF Promise!Places, Promise!SongAt, Index, SongAt
    <3>7. Order # <<>>
      BY <2>2, OrderLen
    <3> QED BY <1>1, <1>2, <3>1, <3>6, <3>7 DEF Promise!Effect, Promise!Reordered
  <2> QED BY <2>1, <2>2
<1> QED BY <1>2, <1>6 DEF Promise!Serve

-----------------------------------------------------------------------------
(* The steps *)

LEMMA InitPromise == Init => Promise!Init
<1> SUFFICES ASSUME Init PROVE Promise!Init
  OBVIOUS
<1>1. Order = <<>>
  BY EmptyOrder DEF Init, Order
<1>2. Asked = <<>>
  BY DEF Init, Asked
<1>3. Excuse = FALSE
  BY DEF Init, Excuse
<1> QED BY <1>1, <1>2, <1>3 DEF Init, Promise!Init

\* A step that leaves nothing to excuse is one of the abstract player or none.
LEMMA InnocentStep ==
    ASSUME SelectionInv, SelectionInv', [Next]_vars, ~Excuse, ~Excuse'
    PROVE  Promise!Ask \/ Promise!End \/ Promise!Serve \/ UNCHANGED Promise!vars
<1>1. Inv /\ Inv' /\ Chosen /\ Chosen'
  BY DEF SelectionInv, Excused, Excuse
<1>2. ASSUME NEW files \in Lists, NEW n \in Index(files), Select(files, n, TRUE) PROVE Promise!Ask
  <2>1. TRUE \in BOOLEAN
    BY Zenon
  <2> QED BY <1>1, <1>2, <2>1, ListsTyped, SelectAsks
<1>3. ASSUME NEW n \in Index(path), Select(path, n, FALSE) PROVE Promise!Ask
  <2>1. FALSE \in BOOLEAN
    BY Zenon
  <2>2. path \in Seq(Songs)
    BY <1>1 DEF Inv, Typed
  <2> QED BY <1>1, <1>3, <2>1, <2>2, SelectAsks
<1>4. CASE ShuffleButton \/ \E c \in {"next", "prev", "play", "stop"} : Press(c)
  BY <1>1, <1>4, ButtonAsks
<1>5. CASE LoopMode \/ OpenCurrent \/ CopyPlist \/ UNCHANGED vars
  BY <1>5, OthersStutter
<1>6. CASE HandleSelect
  BY <1>1, <1>6, SelectServes
<1>7. CASE HandlePlay
  BY <1>1, <1>7, PlayServes
<1>8. CASE HandleStop
  BY <1>1, <1>8, StopServes
<1>9. CASE ShufMode
  BY <1>1, <1>9, ModeServes, SlipsStay
<1>10. CASE Ended
  BY <1>1, <1>10, EndedEnds
<1> QED BY <1>2, <1>3, <1>4, <1>5, <1>6, <1>7, <1>8, <1>9, <1>10 DEF Next

LEMMA NextPromise ==
    ASSUME SelectionInv, SelectionInv', [Next]_vars
    PROVE  [Promise!Next]_(Promise!vars)
<1>1. Excuse \in BOOLEAN /\ Excuse' \in BOOLEAN
  BY DEF Excuse
<1>2. Excuse => Excuse'
  BY SlipsStay DEF Excuse
<1>3. CASE ~Excuse /\ ~Excuse'
  <2>1. UNCHANGED Excuse
    BY <1>1, <1>3
  <2> QED BY <1>3, <2>1, InnocentStep DEF Promise!Next
<1>4. CASE Excuse'
  BY <1>1, <1>4 DEF Promise!Next
<1> QED BY <1>2, <1>3, <1>4

\* For any playlists and any number of pending broadcasts: the numbers, tables and
\* static fields of the service implement the player of Jukebox.  The songs of a
\* list come in an order of which next and previous walk a place at a time, a
\* selected song is the one started, and another shuffle mode reorders the list
\* around the current song; until a mishap excuses it.
THEOREM Kept == Spec => KeepsPromise
<1>1. Init => Promise!Init
  BY InitPromise
<1>2. SelectionInv /\ SelectionInv' /\ [Next]_vars => [Promise!Next]_(Promise!vars)
  BY NextPromise
<1> QED BY <1>1, <1>2, SelectionInvInductive, PTL DEF Spec, KeepsPromise, Promise!Spec
=============================================================================
