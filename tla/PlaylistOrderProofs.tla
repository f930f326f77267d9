------------------------ MODULE PlaylistOrderProofs ------------------------
(***************************************************************************)
(* For any playlists: the shuffled order is always a permutation of the    *)
(* list being played, and the reverse table its inverse.                   *)
(***************************************************************************)
EXTENDS PlaylistOrder, TLAPS

\* Turning a permutation round gives a permutation that undoes it: what the
\* second loop of genShuffledPlist relies on.
LEMMA InverseShuffle ==
    ASSUME NEW list, NEW p \in Shuffles(list)
    PROVE  /\ Inverse0(p) \in Shuffles(list)
           /\ \A i \in Index(list) : Inverse0(p)[p[i]] = i
<1> DEFINE S == Index(list)
           q == Inverse0(p)
<1> HIDE DEF S
<1>1. /\ p \in [S -> S]
      /\ \A i, j \in S : p[i] = p[j] => i = j
      /\ \A j \in S : \E i \in S : p[i] = j
  BY DEF Shuffles, Bijection, Injection, Surjection, IsInjective, S
<1>2. DOMAIN p = S
  BY <1>1
<1>3. q = [j \in S |-> CHOOSE i \in S : p[i] = j]
  BY <1>2 DEF Inverse0
<1>4. \A j \in S : q[j] \in S /\ p[q[j]] = j
  <2> TAKE j \in S
  <2>1. \E i \in S : p[i] = j
    BY <1>1
  <2>2. q[j] = CHOOSE i \in S : p[i] = j
    BY <1>3
  <2> HIDE DEF q
  <2> QED BY <2>1, <2>2
<1>5. \A i \in S : q[p[i]] = i
  <2> HIDE DEF q
  <2> QED BY <1>1, <1>4
<1>6. q \in [S -> S]
  <2>1. q = [j \in S |-> q[j]]
    BY <1>3
  <2> HIDE DEF q
  <2> QED BY <2>1, <1>4
<1>7. \A i, j \in S : q[i] = q[j] => i = j
  <2> HIDE DEF q
  <2> QED BY <1>4
<1>8. \A j \in S : \E i \in S : q[i] = j
  <2> HIDE DEF q
  <2> QED BY <1>1, <1>5
<1>9. q \in Bijection(S, S)
  <2> HIDE DEF q
  <2> QED BY <1>6, <1>7, <1>8 DEF Bijection, Injection, Surjection, IsInjective
<1> QED BY <1>5, <1>9 DEF Shuffles, S

\* genShuffledPlist establishes the invariant for the list it is given.
LEMMA GenShuffled ==
    ASSUME NEW list, genShuffledPlist(list), playList' = list
    PROVE  OrderInv'
<1>1. PICK p \in Shuffles(list) : /\ shuffledIndices' = p
                                  /\ reverseShuffledIndices' = Inverse0(p)
  BY DEF genShuffledPlist
<1>2. /\ shuffledIndices' \in Shuffles(playList')
      /\ reverseShuffledIndices' \in Shuffles(playList')
      /\ \A i \in Index(playList') : reverseShuffledIndices'[shuffledIndices'[i]] = i
  BY <1>1, InverseShuffle
<1> QED BY <1>2 DEF OrderInv, Shuffles, Index

\* A handler that leaves the list and both tables alone preserves it.
LEMMA SameOrder ==
    ASSUME OrderInv, UNCHANGED order
    PROVE  OrderInv'
BY DEF OrderInv, order, Shuffles, Index

LEMMA InitOrderInv == Init => OrderInv
<1> SUFFICES ASSUME Init PROVE OrderInv
  OBVIOUS
<1> DEFINE S == Index(<<>>)
<1>1. /\ playList = <<>>
      /\ shuffledIndices = [i \in S |-> i]
      /\ reverseShuffledIndices = [i \in S |-> i]
  BY DEF Init
<1> HIDE DEF S
<1>2. /\ [i \in S |-> i] \in Bijection(S, S)
      /\ \A i \in S : [k \in S |-> k][[k \in S |-> k][i]] = i
  BY DEF Bijection, Injection, Surjection, IsInjective
<1> QED BY <1>1, <1>2 DEF OrderInv, Shuffles, S

\* Each handler replaces the list together with both tables, the tables for the
\* same list, or nothing.
LEMMA NextOrderInv == OrderInv /\ [Next]_vars => OrderInv'
<1> SUFFICES ASSUME OrderInv, [Next]_vars PROVE OrderInv'
  OBVIOUS
<1>1. ASSUME NEW files, NEW n, NEW copyPlist, Select(files, n, copyPlist) PROVE OrderInv'
  BY <1>1, SameOrder DEF Select
<1>2. ASSUME NEW c, Press(c) PROVE OrderInv'
  BY <1>2, SameOrder DEF Press
<1>3. CASE ShuffleButton
  BY <1>3, SameOrder DEF ShuffleButton
<1>4. CASE LoopMode \/ OpenCurrent \/ CopyPlist
  BY <1>4, SameOrder DEF LoopMode, OpenCurrent, CopyPlist
<1>5. CASE HandleSelect
  <2>1. CASE plist = <<>>
    BY <1>5, <2>1, SameOrder DEF HandleSelect
  <2>2. ASSUME NEW num, LoadPlist(num) PROVE OrderInv'
    BY <2>2, GenShuffled DEF LoadPlist
  <2>3. ASSUME NEW num, PickSong(num) PROVE OrderInv'
    BY <2>3, SameOrder DEF PickSong
  <2> QED BY <1>5, <2>1, <2>2, <2>3 DEF HandleSelect
<1>6. CASE HandlePlay
  BY <1>6, SameOrder DEF HandlePlay
<1>7. CASE HandleStop
  BY <1>7, SameOrder DEF HandleStop
<1>8. CASE ShufMode
  <2>1. CASE playList = <<>>
    BY <1>8, <2>1, SameOrder DEF ShufMode
  <2>2. CASE playList # <<>>
    <3>1. playList' = playList /\ (ShuffleOn \/ ShuffleOff)
      BY <1>8, <2>2 DEF ShufMode
    <3>2. genShuffledPlist(playList)
            \/ UNCHANGED <<shuffledIndices, reverseShuffledIndices>>
      BY <3>1 DEF ShuffleOn, ShuffleOff
    <3> QED BY <3>1, <3>2, GenShuffled, SameOrder DEF order
  <2> QED BY <2>1, <2>2
<1>9. CASE Ended
  BY <1>9, SameOrder DEF Ended
<1>10. CASE UNCHANGED vars
  BY <1>10, SameOrder DEF vars
<1> QED BY <1>1, <1>2, <1>3, <1>4, <1>5, <1>6, <1>7, <1>8, <1>9, <1>10 DEF Next

\* For any playlists and any number of pending broadcasts, the order in which a
\* list is played is a permutation of it with the reverse table as its inverse,
\* through every selection, reshuffle and change of mode.
THEOREM OrderIsPermutation == Spec => []OrderInv
BY InitOrderInv, NextOrderInv, PTL DEF Spec

-----------------------------------------------------------------------------
(***************************************************************************)
(* The two numbers of the current song.  CurrentIsReal is not inductive by *)
(* itself.  Leaving mode 1 restores the number only if fixedShuffle was    *)
(* cleared on entering it (ModeFixes); entering mode 1 looks the number up *)
(* as one of the list, so the service must not be in mode 1 already, which *)
(* is due to the button: each message it sends carries the successor of    *)
(* the mode before (Chain).                                                *)
(***************************************************************************)
Commands == {"select", "next", "prev", "play", "stop", "mode"}
Msg == [cmd : Commands, num : Int, copy : BOOLEAN, song : Songs \union {NoSong}, auto : BOOLEAN]

Typed ==
    /\ toService \in Seq(Msg)
    /\ \A i \in DOMAIN toService : toService[i].cmd = "select" => toService[i].num >= 0
    /\ \A i \in DOMAIN toService : toService[i].cmd = "mode" => toService[i].num \in 0..2
    /\ playList \in Seq(Songs) /\ plist \in Seq(Songs) /\ path \in Seq(Songs)
    /\ currPlist \in Seq(Songs) /\ tmpplist \in Seq(Songs)
    /\ shuffleMode \in 0..2 /\ buttonMode \in 0..2
    /\ currSongNumber \in Int /\ realSongNumber \in Int

ModeNum(i) == IF i = 0 THEN shuffleMode ELSE toService[i].num
Sent == {i \in DOMAIN toService : toService[i].cmd = "mode"}
ModeMsgs == {0} \union Sent
Chain ==
    /\ \A i, j \in ModeMsgs :
          (i < j /\ \A k \in ModeMsgs : ~(i < k /\ k < j)) =>
              ModeNum(j) = (ModeNum(i) + 1) % 3
    /\ \A i \in ModeMsgs : (\A k \in ModeMsgs : k <= i) => ModeNum(i) = buttonMode

ModeFixes == shuffleMode = 1 /\ "early" \notin slips => ~fixedShuffle
RealInList ==
    heard # Crashed /\ playList # <<>> /\ "early" \notin slips =>
        realSongNumber \in Index(playList)

Inv == OrderInv /\ Typed /\ Chain /\ ModeFixes /\ RealInList /\ CurrentIsReal

\* What serving the first message leaves of the queue.
LEMMA TailOf ==
    ASSUME NEW S, NEW s \in Seq(S), s # <<>>
    PROVE  /\ Tail(s) \in Seq(S)
           /\ Head(s) = s[1]
           /\ Len(s) \in Nat \ {0}
           /\ DOMAIN s = 1..Len(s)
           /\ DOMAIN Tail(s) = 1..(Len(s) - 1)
           /\ \A i \in 1..(Len(s) - 1) : Tail(s)[i] = s[i + 1]
OBVIOUS

\* The messages already queued stay where they are.
LEMMA AppendTo ==
    ASSUME NEW S, NEW s \in Seq(S), NEW t \in Seq(S)
    PROVE  /\ s \o t \in Seq(S)
           /\ Len(s) \in Nat /\ Len(t) \in Nat
           /\ DOMAIN s = 1..Len(s)
           /\ DOMAIN (s \o t) = 1..(Len(s) + Len(t))
           /\ \A i \in 1..Len(s) : (s \o t)[i] = s[i]
           /\ \A i \in 1..Len(t) : (s \o t)[Len(s) + i] = t[i]
OBVIOUS

\* Serving a message keeps the chain: if it was a mode, that is the service's
\* mode now.
LEMMA ChainServed ==
    ASSUME Typed, Chain, toService # <<>>, Served, UNCHANGED buttonMode,
           shuffleMode' = IF Head(toService).cmd = "mode" THEN Head(toService).num
                                                          ELSE shuffleMode
    PROVE  Chain'
<1> DEFINE n == Len(toService)
<1>1. /\ n \in Nat \ {0}
      /\ DOMAIN toService = 1..n
      /\ DOMAIN toService' = 1..(n - 1)
      /\ \A i \in 1..(n - 1) : toService'[i] = toService[i + 1]
      /\ Head(toService) = toService[1]
  BY TailOf DEF Typed, Served
<1> HIDE DEF n
<1>2. /\ Sent = {i \in 1..n : toService[i].cmd = "mode"}
      /\ Sent' = {i \in 1..(n - 1) : toService[i + 1].cmd = "mode"}
  BY <1>1 DEF Sent
<1> DEFINE up(i) == IF i = 0 /\ 1 \notin Sent THEN 0 ELSE i + 1
<1>3. \A i \in ModeMsgs' : /\ i \in Nat
                           /\ up(i) \in ModeMsgs
                           /\ ModeNum(i)' = ModeNum(up(i))
  <2> TAKE i \in ModeMsgs'
  <2>1. CASE i = 0
    BY <2>1, <1>1, <1>2 DEF ModeMsgs, ModeNum
  <2>2. CASE i \in 1..(n - 1) /\ toService[i + 1].cmd = "mode"
    BY <2>2, <1>1, <1>2 DEF ModeMsgs, ModeNum
  <2> QED BY <2>1, <2>2, <1>2 DEF ModeMsgs
<1>4. \A k \in ModeMsgs : k \in Nat /\ (k > 1 => k - 1 \in ModeMsgs')
  BY <1>1, <1>2 DEF ModeMsgs
<1>5. ASSUME NEW i \in ModeMsgs', NEW j \in ModeMsgs', i < j,
             \A k \in ModeMsgs' : ~(i < k /\ k < j)
      PROVE  ModeNum(j)' = (ModeNum(i)' + 1) % 3
  <2>1. up(i) < up(j) /\ up(j) = j + 1
    BY <1>3, <1>5
  <2>2. ASSUME NEW k \in ModeMsgs, up(i) < k, k < up(j) PROVE FALSE
    <3>1. k > 1
      BY <2>2, <1>2, <1>3, <1>4 DEF ModeMsgs
    <3> QED BY <3>1, <2>1, <2>2, <1>3, <1>4, <1>5
  <2>3. ModeNum(up(j)) = (ModeNum(up(i)) + 1) % 3
    <3> HIDE DEF up
    <3> QED BY <2>1, <2>2, <1>3 DEF Chain
  <2> QED BY <2>3, <1>3
<1>6. ASSUME NEW i \in ModeMsgs', \A k \in ModeMsgs' : k <= i
      PROVE  ModeNum(i)' = buttonMode
  <2>1. ASSUME NEW k \in ModeMsgs PROVE k <= up(i)
    <3>1. CASE k > 1
      BY <3>1, <1>3, <1>4, <1>6
    <3>2. CASE k <= 1
      BY <3>2, <1>3, <1>4 DEF ModeMsgs
    <3> QED BY <3>1, <3>2, <1>4
  <2> HIDE DEF up
  <2> QED BY <2>1, <1>3, <1>6 DEF Chain
<1> QED BY <1>5, <1>6 DEF Chain

\* Appending messages that are no modes keeps it.
LEMMA ChainSent ==
    ASSUME Typed, Chain, NEW msgs \in Seq(Msg), toService' = toService \o msgs,
           \A i \in 1..Len(msgs) : msgs[i].cmd # "mode", UNCHANGED <<shuffleMode, buttonMode>>
    PROVE  Chain'
<1> DEFINE n == Len(toService)
           m == Len(msgs)
<1>1. /\ n \in Nat /\ m \in Nat
      /\ DOMAIN toService = 1..n /\ DOMAIN toService' = 1..(n + m)
      /\ \A i \in 1..n : toService'[i] = toService[i]
      /\ \A i \in 1..m : toService'[n + i] = msgs[i]
  BY AppendTo DEF Typed
<1> HIDE DEF n, m
<1>2. Sent' = Sent
  <2>1. \A i \in (n + 1)..(n + m) : toService'[i].cmd # "mode"
    <3> TAKE i \in (n + 1)..(n + m)
    <3>1. i - n \in 1..m /\ i = n + (i - n)
      BY <1>1
    <3> QED BY <3>1, <1>1 DEF m
  <2> QED BY <2>1, <1>1 DEF Sent
<1>3. ModeMsgs' = ModeMsgs /\ \A i \in ModeMsgs : ModeNum(i)' = ModeNum(i)
  BY <1>1, <1>2 DEF ModeMsgs, ModeNum, Sent
<1> QED BY <1>3 DEF Chain

\* The button sends the successor of the mode it sent last.
LEMMA ChainButton ==
    ASSUME Typed, Chain, ShuffleButton
    PROVE  Chain'
<1>0. PICK n \in Nat : n = Len(toService)
  BY AppendTo DEF Typed
<1> DEFINE msg == [Cmd("mode", FALSE) EXCEPT !.num = buttonMode']
<1>1. /\ toService' = toService \o <<msg>>
      /\ buttonMode' = (buttonMode + 1) % 3 /\ shuffleMode' = shuffleMode
      /\ msg.cmd = "mode" /\ msg.num = buttonMode'
  BY DEF ShuffleButton, Send, modes, Cmd
<1> HIDE DEF msg
<1>2. /\ DOMAIN toService = 1..n /\ DOMAIN toService' = 1..(n + 1)
      /\ \A i \in 1..n : toService'[i] = toService[i]
      /\ toService'[n + 1] = msg
  <2>1. toService \in Seq(Msg)
    BY DEF Typed
  <2> QED BY <1>0, <1>1, <2>1
<1>3. ModeMsgs' = ModeMsgs \union {n + 1} /\ ModeMsgs \subseteq 0..n
  BY <1>1, <1>2 DEF ModeMsgs, Sent
<1>4. /\ ModeNum(n + 1)' = (buttonMode + 1) % 3 /\ ModeNum(n + 1)' = buttonMode'
      /\ \A i \in ModeMsgs : ModeNum(i)' = ModeNum(i)
  BY <1>1, <1>2, <1>3 DEF ModeNum
<1>5. ASSUME NEW i \in ModeMsgs', NEW j \in ModeMsgs', i < j,
             \A k \in ModeMsgs' : ~(i < k /\ k < j)
      PROVE  ModeNum(j)' = (ModeNum(i)' + 1) % 3
  <2>0. i \in ModeMsgs /\ ModeNum(i)' = ModeNum(i)
    BY <1>2, <1>3, <1>4, <1>5
  <2>1. CASE j \in ModeMsgs
    BY <2>0, <2>1, <1>3, <1>4, <1>5 DEF Chain
  <2>2. CASE j = n + 1
    <3>1. \A k \in ModeMsgs : k <= i
      BY <2>0, <2>2, <1>2, <1>3, <1>5
    <3>2. ModeNum(i) = buttonMode
      BY <3>1, <2>0 DEF Chain
    <3> QED BY <3>2, <2>0, <2>2, <1>4
  <2> QED BY <2>1, <2>2, <1>3
<1>6. ASSUME NEW i \in ModeMsgs', \A k \in ModeMsgs' : k <= i
      PROVE  ModeNum(i)' = buttonMode'
  <2>1. i = n + 1
    BY <1>2, <1>3, <1>6
  <2> QED BY <2>1, <1>4
<1> QED BY <1>5, <1>6 DEF Chain

\* A mode that is served is the successor of the service's.
LEMMA FirstMode ==
    ASSUME Typed, Chain, Serving("mode")
    PROVE  /\ Head(toService).num \in 0..2
           /\ Head(toService).num = 1 => shuffleMode = 0
<1>1. /\ 1 \in DOMAIN toService /\ Head(toService) = toService[1]
      /\ \A i \in DOMAIN toService : i \in Nat /\ i >= 1
  <2>1. toService \in Seq(Msg) /\ toService # <<>>
    BY DEF Typed, Serving
  <2> QED BY <2>1, TailOf
<1>2. 0 \in ModeMsgs /\ 1 \in ModeMsgs /\ \A k \in ModeMsgs : k \in Nat
  BY <1>1 DEF ModeMsgs, Sent, Serving
<1>3. ModeNum(1) = (ModeNum(0) + 1) % 3
  BY <1>2 DEF Chain
<1>4. toService[1].num \in 0..2 /\ shuffleMode \in 0..2
  BY <1>1 DEF Typed, Serving
<1>5. toService[1].num = (shuffleMode + 1) % 3
  BY <1>3 DEF ModeNum
<1> QED BY <1>1, <1>4, <1>5

-----------------------------------------------------------------------------
(* Every handler that ends in play() leaves the two numbers in agreement. *)

LEMMA PlayAgrees ==
    ASSUME play, playList' # <<>>, currSongNumber' \in Int, currSongNumber' >= 0,
           UNCHANGED shuffleMode
    PROVE  CurrentIsReal' /\ RealInList'
<1>1. /\ realSongNumber' = IF shuffleMode = 1 THEN Get(shuffledIndices', currSongNumber')
                                              ELSE currSongNumber'
      /\ heard' \in IF realSongNumber' \in Index(playList')
                    THEN {NoSong, SongAt(playList', realSongNumber')} ELSE {Crashed}
  BY DEF play
<1>2. heard' # Crashed => realSongNumber' \in Index(playList')
  BY <1>1
<1>3. CurrentIsReal'
  BY <1>1 DEF CurrentIsReal, Get
<1>4. RealInList'
  BY <1>2 DEF RealInList, Index
<1> QED BY <1>3, <1>4

\* A handler that changes neither the numbers nor the list nor the mode keeps
\* them in agreement, as long as it does not undo a crash or a mishap.
LEMMA SamePlace ==
    ASSUME CurrentIsReal, RealInList, ModeFixes,
           UNCHANGED <<playList, shuffledIndices, currSongNumber, realSongNumber,
                       shuffleMode, fixedShuffle>>,
           heard' # Crashed => heard # Crashed, slips \subseteq slips'
    PROVE  CurrentIsReal' /\ RealInList' /\ ModeFixes'
<1>1. "early" \notin slips' => "early" \notin slips
  OBVIOUS
<1>2. CurrentIsReal'
  BY <1>1 DEF CurrentIsReal, Get
<1>3. RealInList' /\ ModeFixes'
  BY <1>1 DEF RealInList, ModeFixes, Index
<1> QED BY <1>2, <1>3

\* The reverse table undoes the order from the other side, too.
LEMMA ReverseFirst ==
    ASSUME NEW list, NEW p \in Shuffles(list), NEW q \in Shuffles(list),
           \A i \in Index(list) : q[p[i]] = i
    PROVE  /\ DOMAIN p = Index(list) /\ DOMAIN q = Index(list)
           /\ \A j \in Index(list) : q[j] \in Index(list) /\ p[q[j]] = j
<1> DEFINE S == Index(list)
<1> HIDE DEF S
<1>1. /\ p \in [S -> S] /\ q \in [S -> S]
      /\ \A j \in S : \E i \in S : p[i] = j
      /\ \A i \in S : q[p[i]] = i
  BY DEF Shuffles, Bijection, Injection, Surjection, S
<1>2. \A j \in S : q[j] \in S /\ p[q[j]] = j
  BY <1>1
<1> QED BY <1>1, <1>2 DEF S

\* Entering mode 1, with the same order or a new one.
LEMMA ShuffleOnAgrees ==
    ASSUME Inv, ShuffleOn, OrderInv', UNCHANGED <<playList, realSongNumber, heard>>,
           playList # <<>>, heard # Crashed, shuffleMode = 0, shuffleMode' = 1,
           slips \subseteq slips'
    PROVE  CurrentIsReal' /\ RealInList' /\ ModeFixes'
<1>1. ASSUME "early" \notin slips'
      PROVE  /\ realSongNumber' \in Index(playList')
             /\ realSongNumber' = Get(shuffledIndices', currSongNumber')
  <2>1. currSongNumber = realSongNumber /\ realSongNumber \in Index(playList)
    BY <1>1 DEF Inv, CurrentIsReal, RealInList
  <2>2. realSongNumber' \in Index(playList')
    BY <2>1 DEF Index
  <2>3. /\ reverseShuffledIndices'[realSongNumber'] \in Index(playList')
        /\ shuffledIndices'[reverseShuffledIndices'[realSongNumber']] = realSongNumber'
        /\ DOMAIN reverseShuffledIndices' = Index(playList')
        /\ DOMAIN shuffledIndices' = Index(playList')
    <3>1. /\ shuffledIndices' \in Shuffles(playList')
          /\ reverseShuffledIndices' \in Shuffles(playList')
          /\ \A i \in Index(playList') : reverseShuffledIndices'[shuffledIndices'[i]] = i
      BY DEF OrderInv, Shuffles, Index
    <3> QED BY <2>2, <3>1, ReverseFirst
  <2>4. currSongNumber' = Get(reverseShuffledIndices', realSongNumber')
    BY <2>1 DEF ShuffleOn
  <2>5. currSongNumber' = reverseShuffledIndices'[realSongNumber']
    BY <2>2, <2>3, <2>4 DEF Get
  <2> QED BY <2>2, <2>3, <2>5 DEF Get
<1>2. CurrentIsReal'
  BY <1>1 DEF CurrentIsReal
<1>3. RealInList'
  BY <1>1 DEF RealInList
<1>4. ModeFixes'
  BY DEF ModeFixes, ShuffleOn
<1> QED BY <1>2, <1>3, <1>4

\* Leaving mode 1, or going on between the two others.
LEMMA ShuffleOffAgrees ==
    ASSUME Inv, ShuffleOff, UNCHANGED <<playList, realSongNumber, heard>>,
           playList # <<>>, heard # Crashed, shuffleMode' # 1, slips \subseteq slips'
    PROVE  CurrentIsReal' /\ RealInList' /\ ModeFixes'
<1>1. ASSUME "early" \notin slips'
      PROVE  realSongNumber' \in Index(playList') /\ currSongNumber' = realSongNumber'
  <2>1. /\ realSongNumber \in Index(playList)
        /\ shuffleMode = 1 => ~fixedShuffle
        /\ shuffleMode # 1 => currSongNumber = realSongNumber
    BY <1>1 DEF Inv, CurrentIsReal, RealInList, ModeFixes
  <2>2. currSongNumber' = realSongNumber
    BY <2>1 DEF ShuffleOff
  <2> QED BY <2>1, <2>2 DEF Index
<1>2. CurrentIsReal'
  BY <1>1 DEF CurrentIsReal
<1>3. RealInList'
  BY <1>1 DEF RealInList
<1>4. ModeFixes'
  BY DEF ModeFixes
<1> QED BY <1>2, <1>3, <1>4

-----------------------------------------------------------------------------
(* The parts of Inv, preserved by the steps. *)

\* A record with its fields in their sets is a message.
LEMMA MsgRecord ==
    ASSUME NEW C, NEW c \in C, NEW I, NEW n \in I, NEW B, NEW cp \in B,
           NEW S, NEW s \in S, NEW a \in B
    PROVE  [cmd |-> c, num |-> n, copy |-> cp, song |-> s, auto |-> a]
               \in [cmd : C, num : I, copy : B, song : S, auto : B]
OBVIOUS

\* What the activity and the watcher send are messages.
LEMMA CmdTyped ==
    ASSUME NEW c \in Commands, NEW auto \in BOOLEAN
    PROVE  Cmd(c, auto) \in Msg /\ Cmd(c, auto).cmd = c
<1>1. FALSE \in BOOLEAN /\ NoSong \in Songs \union {NoSong}
  BY Zenon
<1>2. -1 \in Int
  BY SMT
<1>3. Cmd(c, auto) \in Msg
  BY <1>1, <1>2, MsgRecord, Zenon DEF Cmd, Msg
<1>4. Cmd(c, auto).cmd = c
  BY Zenon DEF Cmd
<1> QED BY <1>3, <1>4

LEMMA ModeTyped ==
    ASSUME NEW n \in Int
    PROVE  /\ [Cmd("mode", FALSE) EXCEPT !.num = n] \in Msg
           /\ [Cmd("mode", FALSE) EXCEPT !.num = n].cmd = "mode"
           /\ [Cmd("mode", FALSE) EXCEPT !.num = n].num = n
<1> DEFINE r == Cmd("mode", FALSE)
<1>1. r \in Msg /\ r.cmd = "mode"
  <2>1. "mode" \in Commands
    BY DEF Commands
  <2>2. FALSE \in BOOLEAN
    BY Zenon
  <2> QED BY <2>1, <2>2, CmdTyped, Zenon
<1> HIDE DEF r
<1>2. /\ [r EXCEPT !.num = n] \in Msg /\ [r EXCEPT !.num = n].cmd = "mode"
      /\ [r EXCEPT !.num = n].num = n
  BY <1>1 DEF Msg
<1> QED BY <1>2 DEF r

LEMMA SelectTyped ==
    ASSUME NEW n \in Int, NEW cp \in BOOLEAN, NEW s \in Songs
    PROVE  /\ SelectCmd(n, cp, s) \in Msg
           /\ SelectCmd(n, cp, s).cmd = "select" /\ SelectCmd(n, cp, s).num = n
<1>1. "select" \in Commands
  BY DEF Commands
<1>2. FALSE \in BOOLEAN /\ s \in Songs \union {NoSong}
  BY Zenon
<1>3. SelectCmd(n, cp, s) \in Msg
  BY <1>1, <1>2, MsgRecord, Zenon DEF SelectCmd, Msg
<1>4. SelectCmd(n, cp, s).cmd = "select" /\ SelectCmd(n, cp, s).num = n
  BY Zenon DEF SelectCmd
<1> QED BY <1>3, <1>4

\* What the queue may hold.
QueueOK(q) ==
    /\ q \in Seq(Msg)
    /\ \A i \in DOMAIN q : q[i].cmd = "select" => q[i].num >= 0
    /\ \A i \in DOMAIN q : q[i].cmd = "mode" => q[i].num \in 0..2

LEMMA QueueAppended ==
    ASSUME NEW q, QueueOK(q), NEW t, QueueOK(t)
    PROVE  QueueOK(q \o t)
<1>1. /\ q \o t \in Seq(Msg)
      /\ Len(q) \in Nat /\ Len(t) \in Nat
      /\ DOMAIN q = 1..Len(q) /\ DOMAIN t = 1..Len(t)
      /\ DOMAIN (q \o t) = 1..(Len(q) + Len(t))
      /\ \A i \in 1..Len(q) : (q \o t)[i] = q[i]
      /\ \A i \in 1..Len(t) : (q \o t)[Len(q) + i] = t[i]
  BY AppendTo DEF QueueOK
<1>2. \A i \in DOMAIN (q \o t) :
         \/ i \in DOMAIN q /\ (q \o t)[i] = q[i]
         \/ i - Len(q) \in DOMAIN t /\ (q \o t)[i] = t[i - Len(q)]
  <2> TAKE i \in DOMAIN (q \o t)
  <2>1. CASE i \in 1..Len(q)
    BY <1>1, <2>1
  <2>2. CASE i \notin 1..Len(q)
    <3>1. i - Len(q) \in 1..Len(t) /\ i = Len(q) + (i - Len(q))
      BY <1>1, <2>2
    <3> QED BY <1>1, <3>1
  <2> QED BY <2>1, <2>2
<1> HIDE DEF QueueOK
<1>3. /\ \A i \in DOMAIN q : /\ q[i].cmd = "select" => q[i].num >= 0
                             /\ q[i].cmd = "mode" => q[i].num \in 0..2
      /\ \A i \in DOMAIN t : /\ t[i].cmd = "select" => t[i].num >= 0
                             /\ t[i].cmd = "mode" => t[i].num \in 0..2
  BY DEF QueueOK
<1> QED BY <1>1, <1>2, <1>3 DEF QueueOK

LEMMA QueueServed ==
    ASSUME NEW q, QueueOK(q), q # <<>>
    PROVE  /\ QueueOK(Tail(q)) /\ Head(q) \in Msg
           /\ Head(q).cmd = "select" => Head(q).num >= 0
<1>1. /\ Tail(q) \in Seq(Msg) /\ Head(q) = q[1]
      /\ Len(q) \in Nat \ {0}
      /\ DOMAIN q = 1..Len(q) /\ DOMAIN Tail(q) = 1..(Len(q) - 1)
      /\ \A i \in 1..(Len(q) - 1) : Tail(q)[i] = q[i + 1]
  BY TailOf DEF QueueOK
<1>2. \A i \in DOMAIN Tail(q) : i + 1 \in DOMAIN q /\ Tail(q)[i] = q[i + 1]
  BY <1>1
<1>3. 1 \in DOMAIN q /\ q[1] \in Msg
  BY <1>1 DEF QueueOK
<1> QED BY <1>1, <1>2, <1>3 DEF QueueOK

\* A list of a selection has songs of Lists.
LEMMA ListsTyped ==
    ASSUME NEW files \in Lists
    PROVE  files \in Seq(Songs)
<1>1. files \in Seq(Range(files)) /\ Range(files) \subseteq Songs
  BY ListsAssumption DEF Songs
<1> QED BY <1>1

\* The list in the order it is played is a list of songs.
LEMMA OrderTyped ==
    ASSUME NEW list \in Seq(Songs), NEW p \in Shuffles(list), NEW mode
    PROVE  InOrder(list, p, mode) \in Seq(Songs)
<1>1. CASE mode = 1
  <2>1. Len(list) \in Nat /\ DOMAIN list = 1..Len(list)
    OBVIOUS
  <2>2. \A i \in 1..Len(list) : p[i - 1] \in Index(list)
    BY <2>1 DEF Shuffles, Bijection, Injection, Index
  <2>3. \A i \in 1..Len(list) : list[p[i - 1] + 1] \in Songs
    BY <2>1, <2>2 DEF Index
  <2>4. [i \in 1..Len(list) |-> list[p[i - 1] + 1]] \in Seq(Songs)
    BY <2>1, <2>3
  <2> QED BY <1>1, <2>4 DEF InOrder, SongAt
<1>2. CASE mode # 1
  BY <1>2 DEF InOrder
<1> QED BY <1>1, <1>2

ListVars == /\ playList \in Seq(Songs) /\ plist \in Seq(Songs) /\ path \in Seq(Songs)
          /\ currPlist \in Seq(Songs) /\ tmpplist \in Seq(Songs)
NumberVars == /\ shuffleMode \in 0..2 /\ buttonMode \in 0..2
          /\ currSongNumber \in Int /\ realSongNumber \in Int

LEMMA TypedParts == Typed <=> QueueOK(toService) /\ ListVars /\ NumberVars
BY DEF Typed, QueueOK, ListVars, NumberVars

\* Messages of the queue itself: one or two of them, none of them a mode.
LEMMA OneMsg ==
    ASSUME NEW m \in Msg, m.cmd = "select" => m.num >= 0, m.cmd = "mode" => m.num \in 0..2
    PROVE  QueueOK(<<m>>) /\ <<m>> \in Seq(Msg) /\ Len(<<m>>) = 1 /\ <<m>>[1] = m
BY DEF QueueOK

LEMMA TwoMsgs ==
    ASSUME NEW m \in Msg, NEW k \in Msg, m.cmd \notin {"select", "mode"},
           k.cmd = "select", k.num >= 0
    PROVE  QueueOK(<<m, k>>) /\ <<m, k>> \in Seq(Msg) /\ Len(<<m, k>>) = 2
           /\ <<m, k>>[1] = m /\ <<m, k>>[2] = k
BY DEF QueueOK

\* A step of the activity or the watcher that appends messages other than modes.
LEMMA SendKeeps ==
    ASSUME Inv, NEW msgs, QueueOK(msgs), toService' = toService \o msgs,
           \A i \in 1..Len(msgs) : msgs[i].cmd # "mode",
           UNCHANGED <<order, place, shuffleMode, fixedShuffle, buttonMode>>,
           heard' # Crashed => heard # Crashed, slips \subseteq slips', ListVars'
    PROVE  Inv'
<1>1. OrderInv'
  BY SameOrder DEF Inv
<1>2. Typed'
  <2>1. QueueOK(toService')
    BY TypedParts, QueueAppended DEF Inv
  <2>2. NumberVars'
    BY TypedParts DEF Inv, NumberVars, place
  <2> QED BY <2>1, <2>2, TypedParts DEF Typed, QueueOK, ListVars, NumberVars
<1>3. Chain'
  BY ChainSent DEF Inv, QueueOK
<1>4. CurrentIsReal' /\ RealInList' /\ ModeFixes'
  BY SamePlace DEF Inv, order, place
<1> QED BY <1>1, <1>2, <1>3, <1>4 DEF Inv

\* The same without a message.
LEMMA QuietKeeps ==
    ASSUME Inv, UNCHANGED <<toService, order, place, shuffleMode, fixedShuffle, buttonMode>>,
           heard' # Crashed => heard # Crashed, slips \subseteq slips', ListVars'
    PROVE  Inv'
<1>1. OrderInv'
  BY SameOrder DEF Inv
<1>2. Typed'
  BY DEF Inv, Typed, ListVars, place
<1>3. Chain'
  <2>1. ModeMsgs' = ModeMsgs /\ \A i : ModeNum(i)' = ModeNum(i)
    BY DEF ModeMsgs, Sent, ModeNum
  <2> QED BY <2>1 DEF Inv, Chain
<1>4. CurrentIsReal' /\ RealInList' /\ ModeFixes'
  BY SamePlace DEF Inv, order, place
<1> QED BY <1>1, <1>2, <1>3, <1>4 DEF Inv

\* A handler serves the first message; what is left for each handler to show is
\* what it does to the order, the lists, the number and the agreement.
LEMMA ServeKeeps ==
    ASSUME Inv, toService # <<>>, Served, UNCHANGED buttonMode,
           shuffleMode' = IF Head(toService).cmd = "mode" THEN Head(toService).num
                                                          ELSE shuffleMode,
           shuffleMode' \in 0..2, currSongNumber' \in Int, realSongNumber' \in Int, ListVars',
           OrderInv', CurrentIsReal', RealInList', ModeFixes'
    PROVE  Inv'
<1>1. QueueOK(toService')
  BY TypedParts, QueueServed DEF Inv, Served
<1>2. Typed'
  BY <1>1 DEF Inv, Typed, QueueOK, ListVars
<1>3. Chain'
  BY ChainServed DEF Inv
<1> QED BY <1>2, <1>3 DEF Inv

LEMMA InitInv == Init => Inv
<1> SUFFICES ASSUME Init PROVE Inv
  OBVIOUS
<1>1. OrderInv
  BY InitOrderInv
<1>2. Typed
  BY DEF Init, Typed
<1>3. Chain
  <2>1. ModeMsgs = {0}
    BY DEF Init, ModeMsgs, Sent
  <2> QED BY <2>1 DEF Init, Chain, ModeNum
<1>4. ModeFixes /\ RealInList /\ CurrentIsReal
  BY DEF Init, ModeFixes, RealInList, CurrentIsReal
<1> QED BY <1>1, <1>2, <1>3, <1>4 DEF Inv

-----------------------------------------------------------------------------
(* One lemma for each action. *)

LEMMA SelectStep ==
    ASSUME Inv, NEW files \in Seq(Songs), NEW n \in Index(files),
           NEW copyPlist \in BOOLEAN, Select(files, n, copyPlist)
    PROVE  Inv'
<1>1. n \in Int /\ n >= 0 /\ SongAt(files, n) \in Songs
  BY DEF Index, SongAt
<1> DEFINE stop == Cmd("stop", FALSE)
           sel == SelectCmd(n, copyPlist, SongAt(files, n))
<1>2. stop \in Msg /\ sel \in Msg /\ stop.cmd = "stop" /\ sel.cmd = "select" /\ sel.num = n
  <2>1. "stop" \in Commands
    BY DEF Commands
  <2>2. FALSE \in BOOLEAN
    BY Zenon
  <2> QED BY <1>1, <2>1, <2>2, CmdTyped, SelectTyped, Zenon
<1>3. toService' = toService \o <<stop, sel>>
  BY DEF Select, Send
<1> HIDE DEF stop, sel
<1>4. QueueOK(<<stop, sel>>) /\ \A i \in 1..Len(<<stop, sel>>) : <<stop, sel>>[i].cmd # "mode"
  BY <1>1, <1>2, TwoMsgs
<1>5. ListVars'
  <2>1. ListVars
    BY TypedParts DEF Inv
  <2>2. currPlist' \in Seq(Songs) /\ plist' \in Seq(Songs)
    BY <2>1 DEF Select, ListVars
  <2> QED BY <2>1, <2>2 DEF Select, ListVars, order
<1>6. /\ UNCHANGED <<order, place, shuffleMode, fixedShuffle, buttonMode, heard>>
      /\ slips \subseteq slips'
  <2>1. slips \subseteq slips'
    BY Zenon DEF Select
  <2> QED BY <2>1 DEF Select, modes
<1> QED BY <1>3, <1>4, <1>5, <1>6, SendKeeps

LEMMA PressStep ==
    ASSUME Inv, NEW c \in {"next", "prev", "play", "stop"}, Press(c)
    PROVE  Inv'
<1> DEFINE m == Cmd(c, FALSE)
<1>1. m \in Msg /\ m.cmd = c
  <2>1. c \in Commands
    BY DEF Commands
  <2>2. FALSE \in BOOLEAN
    BY Zenon
  <2> QED BY <2>1, <2>2, CmdTyped, Zenon
<1>2. toService' = toService \o <<m>>
  BY DEF Press, Send
<1> HIDE DEF m
<1>3. QueueOK(<<m>>) /\ \A i \in 1..Len(<<m>>) : <<m>>[i].cmd # "mode"
  BY <1>1, OneMsg
<1>4. ListVars'
  BY DEF Inv, Typed, ListVars, Press, order, ui
<1> QED BY <1>2, <1>3, <1>4, SendKeeps DEF Press, modes, ui

LEMMA ButtonStep ==
    ASSUME Inv, ShuffleButton
    PROVE  Inv'
<1> DEFINE m == [Cmd("mode", FALSE) EXCEPT !.num = buttonMode']
<1>1. buttonMode' \in 0..2
  BY DEF ShuffleButton, Inv, Typed
<1>2. m \in Msg /\ m.cmd = "mode" /\ m.num = buttonMode'
  <2>1. buttonMode' \in Int
    BY <1>1
  <2> QED BY <2>1, ModeTyped
<1>3. toService' = toService \o <<m>>
  BY DEF ShuffleButton, Send
<1> HIDE DEF m
<1>4. QueueOK(toService')
  <2>1. QueueOK(<<m>>)
    BY <1>1, <1>2, OneMsg
  <2> QED BY <1>3, <2>1, QueueAppended, TypedParts DEF Inv
<1>5. Typed'
  BY <1>1, <1>4 DEF Typed, QueueOK, Inv, ShuffleButton, order, modes, place
<1>6. OrderInv'
  BY SameOrder DEF ShuffleButton, Inv
<1>7. Chain'
  BY ChainButton DEF Inv
<1>8. CurrentIsReal' /\ RealInList' /\ ModeFixes'
  BY SamePlace DEF ShuffleButton, Inv, order, place, modes
<1> QED BY <1>5, <1>6, <1>7, <1>8 DEF Inv

LEMMA UiStep ==
    ASSUME Inv, LoopMode \/ OpenCurrent \/ CopyPlist
    PROVE  Inv'
<1>0. ListVars
  BY TypedParts DEF Inv
<1>1. CASE LoopMode
  <2>1. ListVars'
    BY <1>0, <1>1 DEF LoopMode, ListVars, order, ui
  <2> QED BY <1>1, <2>1, QuietKeeps DEF LoopMode, ui
<1>2. CASE OpenCurrent
  <2>1. ListVars'
    BY <1>0, <1>2 DEF OpenCurrent, ListVars, order
  <2> QED BY <1>2, <2>1, QuietKeeps DEF OpenCurrent, modes
<1>3. CASE CopyPlist
  <2>1. ListVars'
    BY <1>0, <1>3 DEF CopyPlist, ListVars, order
  <2> QED BY <1>3, <2>1, QuietKeeps DEF CopyPlist, modes
<1> QED BY <1>1, <1>2, <1>3

LEMMA EndedStep ==
    ASSUME Inv, Ended
    PROVE  Inv'
<1> DEFINE nx == Cmd("next", TRUE)
           pl == Cmd("play", TRUE)
<1>1. nx \in Msg /\ nx.cmd = "next" /\ pl \in Msg /\ pl.cmd = "play"
  <2>1. "next" \in Commands /\ "play" \in Commands
    BY DEF Commands
  <2>2. TRUE \in BOOLEAN
    BY Zenon
  <2> QED BY <2>1, <2>2, CmdTyped, Zenon
<1>2. \E msgs \in {<<nx>>, <<pl>>, <<>>} : toService' = toService \o msgs
  BY Zenon DEF Ended
<1> HIDE DEF nx, pl
<1>3. PICK msgs \in {<<nx>>, <<pl>>, <<>>} : toService' = toService \o msgs
  BY <1>2
<1>4. QueueOK(msgs) /\ \A i \in 1..Len(msgs) : msgs[i].cmd # "mode"
  <2>1. CASE msgs = <<nx>>
    BY <1>1, <2>1, OneMsg
  <2>2. CASE msgs = <<pl>>
    BY <1>1, <2>2, OneMsg
  <2>3. CASE msgs = <<>>
    BY <2>3 DEF QueueOK
  <2> QED BY <1>3, <2>1, <2>2, <2>3
<1>5. ListVars'
  BY DEF Inv, Typed, ListVars, Ended, order, ui
<1>6. heard # Crashed /\ UNCHANGED <<order, place, shuffleMode, fixedShuffle, buttonMode, slips>>
  BY OutcomeAssumption DEF Ended, modes, ui
<1> QED BY <1>3, <1>4, <1>5, <1>6, SendKeeps

\* The list a handler sends to the activity is one of songs.
LEMMA SentTyped ==
    ASSUME OrderInv', playList' \in Seq(Songs), SendPlist
    PROVE  tmpplist' \in Seq(Songs)
<1>1. shuffledIndices' \in Shuffles(playList')
  BY DEF OrderInv, Shuffles, Index
<1>2. InOrder(playList', shuffledIndices', shuffleMode') \in Seq(Songs)
  BY <1>1, OrderTyped
<1>3. tmpplist' = InOrder(playList', shuffledIndices', shuffleMode')
  BY DEF SendPlist, Order, InOrder, SongAt
<1> QED BY <1>2, <1>3

\* play() stores a number.
LEMMA PlayTyped ==
    ASSUME play, OrderInv', currSongNumber' \in Int, realSongNumber \in Int
    PROVE  realSongNumber' \in Int
<1>1. shuffledIndices' \in Shuffles(playList')
  BY DEF OrderInv, Shuffles, Index
<1>2. \A i : Get(shuffledIndices', i) \in Int
  <2>1. shuffledIndices' \in [Index(playList') -> Index(playList')]
    BY <1>1 DEF Shuffles, Bijection, Injection
  <2>2. Index(playList') \subseteq Int
    BY DEF Index
  <2> QED BY <2>1, <2>2 DEF Get
<1> QED BY <1>2 DEF play

LEMMA HandleSelectStep ==
    ASSUME Inv, HandleSelect
    PROVE  Inv'
<1>0. /\ toService # <<>> /\ Head(toService).cmd = "select" /\ heard # Crashed
      /\ Served /\ UNCHANGED <<shuffleMode, fixedShuffle, buttonMode, currPlist, path>>
      /\ slips \subseteq slips'
  <2>1. slips \subseteq slips'
    BY Zenon DEF HandleSelect, Handled
  <2> QED BY <2>1 DEF HandleSelect, Serving, Handled, modes, ui
<1>1. ListVars /\ OrderInv /\ currSongNumber \in Int /\ realSongNumber \in Int /\ shuffleMode \in 0..2
  BY TypedParts DEF Inv, Typed
<1>2. Head(toService).num \in Int /\ Head(toService).num >= 0
  <2>1. QueueOK(toService)
    BY TypedParts DEF Inv
  <2> QED BY <1>0, <2>1, QueueServed DEF Msg
<1>3. ModeFixes'
  BY <1>0 DEF Inv, ModeFixes
<1>4. CASE plist = <<>>
  <2>1. UNCHANGED <<order, place, heard, plist, tmpplist>>
    BY <1>4 DEF HandleSelect
  <2>2. ListVars' /\ currSongNumber' \in Int /\ realSongNumber' \in Int
    BY <1>0, <1>1, <2>1 DEF ListVars, order, place
  <2>3. OrderInv'
    BY <1>1, <2>1, SameOrder
  <2>4. CurrentIsReal' /\ RealInList'
    BY <1>0, <2>1, SamePlace DEF Inv, order, place
  <2> QED BY <1>0, <1>1, <1>3, <2>2, <2>3, <2>4, ServeKeeps
<1>5. CASE plist # <<>>
  <2> DEFINE num == Head(toService).num
  <2>1. (LoadPlist(num) \/ PickSong(num)) /\ plist' = <<>> /\ SendPlist /\ play
    BY <1>5 DEF HandleSelect
  <2>2. /\ OrderInv' /\ playList' \in Seq(Songs)
        /\ currSongNumber' \in Int /\ currSongNumber' >= 0
    <3>1. CASE LoadPlist(num)
      <4>1. playList' = plist /\ OrderInv'
        BY <3>1, GenShuffled DEF LoadPlist
      <4>2. reverseShuffledIndices' \in Shuffles(playList')
        BY <4>1 DEF OrderInv, Shuffles, Index
      <4>3. \A i : Get(reverseShuffledIndices', i) \in Nat
        <5>1. reverseShuffledIndices' \in [Index(playList') -> Index(playList')]
          BY <4>2 DEF Shuffles, Bijection, Injection
        <5>2. Index(playList') \subseteq Nat
          BY DEF Index
        <5> QED BY <5>1, <5>2 DEF Get
      <4> QED BY <1>1, <1>2, <3>1, <4>1, <4>3 DEF LoadPlist, ListVars
    <3>2. CASE PickSong(num)
      BY <1>1, <1>2, <3>2, SameOrder DEF PickSong, ListVars, order
    <3> QED BY <2>1, <3>1, <3>2
  <2>3. tmpplist' \in Seq(Songs)
    BY <2>1, <2>2, SentTyped
  <2>4. ListVars'
    BY <1>0, <1>1, <2>1, <2>2, <2>3 DEF ListVars
  <2>5. CurrentIsReal' /\ RealInList'
    <3>1. CASE playList' = <<>>
      BY <3>1 DEF CurrentIsReal, RealInList
    <3>2. CASE playList' # <<>>
      BY <1>0, <2>1, <2>2, <3>2, PlayAgrees
    <3> QED BY <3>1, <3>2
  <2>6. realSongNumber' \in Int
    BY <1>1, <2>1, <2>2, PlayTyped
  <2> HIDE DEF num
  <2> QED BY <1>0, <1>1, <1>3, <2>2, <2>4, <2>5, <2>6, ServeKeeps
<1> QED BY <1>4, <1>5

LEMMA HandlePlayStep ==
    ASSUME Inv, HandlePlay
    PROVE  Inv'
<1>0. /\ toService # <<>> /\ Head(toService).cmd # "mode" /\ heard # Crashed
      /\ Served /\ UNCHANGED <<order, playList, modes, shuffleMode, fixedShuffle, plist,
                               tmpplist, ui, buttonMode>>
      /\ slips \subseteq slips' /\ play
      /\ next \/ previous \/ UNCHANGED currSongNumber
  <2>1. slips \subseteq slips'
    BY Zenon DEF HandlePlay, Handled
  <2> QED BY <2>1 DEF HandlePlay, Serving, Handled, modes, ui, order
<1>1. ListVars /\ OrderInv /\ currSongNumber \in Int /\ realSongNumber \in Int /\ shuffleMode \in 0..2
  BY TypedParts DEF Inv, Typed
<1>2. ListVars' /\ OrderInv' /\ ModeFixes'
  <2>1. OrderInv'
    BY <1>0, <1>1, SameOrder
  <2> QED BY <1>0, <1>1, <2>1 DEF ListVars, Inv, ModeFixes, ui
<1>3. playList # <<>> => Len(playList) \in Nat \ {0}
  BY <1>1 DEF ListVars
<1>4. CASE playList # <<>> /\ currSongNumber >= 0
  <2>1. currSongNumber' \in Int /\ currSongNumber' >= 0
    BY <1>0, <1>1, <1>3, <1>4 DEF next, previous, Index
  <2>2. CurrentIsReal' /\ RealInList'
    BY <1>0, <1>4, <2>1, PlayAgrees
  <2>3. realSongNumber' \in Int
    BY <1>0, <1>1, <1>2, <2>1, PlayTyped
  <2> QED BY <1>0, <1>1, <1>2, <2>1, <2>2, <2>3, ServeKeeps
<1>5. CASE ~(playList # <<>> /\ currSongNumber >= 0)
  <2>1. currSongNumber' = currSongNumber
    BY <1>0, <1>1, <1>5 DEF next, previous
  <2>2. UNCHANGED <<realSongNumber, heard>>
    BY <1>0, <1>5, <2>1 DEF play
  <2>3. CurrentIsReal' /\ RealInList'
    BY <1>0, <2>1, <2>2, SamePlace DEF Inv, order
  <2> QED BY <1>0, <1>1, <1>2, <2>1, <2>2, <2>3, ServeKeeps
<1> QED BY <1>4, <1>5

LEMMA HandleStopStep ==
    ASSUME Inv, HandleStop
    PROVE  Inv'
<1>0. /\ toService # <<>> /\ Head(toService).cmd # "mode" /\ heard # Crashed
      /\ Served /\ UNCHANGED <<order, place, shuffleMode, fixedShuffle, plist,
                               tmpplist, ui, buttonMode>>
      /\ slips \subseteq slips'
  <2>1. slips \subseteq slips'
    BY Zenon DEF HandleStop, Handled
  <2> QED BY <2>1 DEF HandleStop, Serving, Handled, modes, ui
<1>1. ListVars /\ OrderInv /\ currSongNumber \in Int /\ realSongNumber \in Int /\ shuffleMode \in 0..2
  BY TypedParts DEF Inv, Typed
<1>2. ListVars' /\ currSongNumber' \in Int /\ realSongNumber' \in Int
  BY <1>0, <1>1 DEF ListVars, order, ui, place
<1>3. OrderInv'
  BY <1>0, <1>1, SameOrder
<1>4. CurrentIsReal' /\ RealInList' /\ ModeFixes'
  BY <1>0, SamePlace DEF Inv, order, place
<1> QED BY <1>0, <1>1, <1>2, <1>3, <1>4, ServeKeeps

LEMMA ShufModeStep ==
    ASSUME Inv, ShufMode
    PROVE  Inv'
<1>0. /\ Serving("mode") /\ toService # <<>> /\ Head(toService).cmd = "mode" /\ heard # Crashed
      /\ Served /\ shuffleMode' = Head(toService).num
      /\ UNCHANGED <<playList, realSongNumber, heard, plist, ui, buttonMode>>
  BY DEF ShufMode, Serving, ui, order
<1>1. ListVars /\ OrderInv /\ currSongNumber \in Int /\ realSongNumber \in Int /\ ModeFixes
  BY TypedParts DEF Inv, Typed
<1>2. shuffleMode' \in 0..2 /\ (shuffleMode' = 1 => shuffleMode = 0)
  BY <1>0, FirstMode DEF Inv
<1>3. CASE playList = <<>>
  <2>1. /\ UNCHANGED <<order, currSongNumber, fixedShuffle, tmpplist>>
        /\ slips' = Slip("early", shuffleMode' = 1)
    BY <1>3 DEF ShufMode
  <2>2. shuffleMode' = 1 => "early" \in slips'
    BY <2>1 DEF Slip
  <2>3. ListVars' /\ currSongNumber' \in Int /\ realSongNumber' \in Int
    BY <1>0, <1>1, <2>1 DEF ListVars, order, ui
  <2>4. OrderInv'
    BY <1>1, <2>1, SameOrder
  <2>5. CurrentIsReal' /\ RealInList'
    BY <1>0, <1>3 DEF CurrentIsReal, RealInList
  <2>6. ModeFixes'
    BY <2>2 DEF ModeFixes
  <2> QED BY <1>0, <1>2, <2>3, <2>4, <2>5, <2>6, ServeKeeps
<1>4. CASE playList # <<>>
  <2>1. /\ slips' = slips \union Overlap /\ SendPlist
        /\ IF shuffleMode' = 1 THEN ShuffleOn ELSE ShuffleOff
    BY <1>4 DEF ShufMode
  <2>2. slips \subseteq slips'
    BY <2>1, Zenon
  <2>3. OrderInv'
    <3>1. genShuffledPlist(playList)
            \/ UNCHANGED <<shuffledIndices, reverseShuffledIndices>>
      BY <2>1 DEF ShuffleOn, ShuffleOff
    <3> QED BY <1>0, <1>1, <3>1, GenShuffled, SameOrder DEF order
  <2>4. ListVars'
    <3>1. tmpplist' \in Seq(Songs)
      BY <1>0, <1>1, <2>1, <2>3, SentTyped DEF ListVars
    <3> QED BY <1>0, <1>1, <3>1 DEF ListVars, ui
  <2>5. CurrentIsReal' /\ RealInList' /\ ModeFixes'
    <3>1. CASE shuffleMode' = 1
      BY <1>0, <1>2, <1>4, <2>1, <2>2, <2>3, <3>1, ShuffleOnAgrees
    <3>2. CASE shuffleMode' # 1
      BY <1>0, <1>4, <2>1, <2>2, <3>2, ShuffleOffAgrees
    <3> QED BY <3>1, <3>2
  <2>6. currSongNumber' \in Int /\ realSongNumber' \in Int
    <3>1. reverseShuffledIndices' \in Shuffles(playList')
      BY <2>3 DEF OrderInv, Shuffles, Index
    <3>2. \A i : Get(reverseShuffledIndices', i) \in Int
      <4>1. reverseShuffledIndices' \in [Index(playList') -> Index(playList')]
        BY <3>1 DEF Shuffles, Bijection, Injection
      <4>2. Index(playList') \subseteq Int
        BY DEF Index
      <4> QED BY <4>1, <4>2 DEF Get
    <3> QED BY <1>0, <1>1, <2>1, <3>2 DEF ShuffleOn, ShuffleOff
  <2> QED BY <1>0, <1>2, <2>3, <2>4, <2>5, <2>6, ServeKeeps
<1> QED BY <1>3, <1>4

LEMMA NextInv == Inv /\ [Next]_vars => Inv'
<1> SUFFICES ASSUME Inv, [Next]_vars PROVE Inv'
  OBVIOUS
<1>1. ASSUME NEW files \in Lists, NEW n \in Index(files), Select(files, n, TRUE) PROVE Inv'
  <2>1. TRUE \in BOOLEAN
    BY Zenon
  <2> QED BY <1>1, <2>1, ListsTyped, SelectStep
<1>2. ASSUME NEW n \in Index(path), Select(path, n, FALSE) PROVE Inv'
  <2>1. FALSE \in BOOLEAN
    BY Zenon
  <2>2. path \in Seq(Songs)
    BY DEF Inv, Typed
  <2> QED BY <1>2, <2>1, <2>2, SelectStep
<1>3. ASSUME NEW c \in {"next", "prev", "play", "stop"}, Press(c) PROVE Inv'
  BY <1>3, PressStep
<1>4. CASE ShuffleButton
  BY <1>4, ButtonStep
<1>5. CASE LoopMode \/ OpenCurrent \/ CopyPlist
  BY <1>5, UiStep
<1>6. CASE HandleSelect
  BY <1>6, HandleSelectStep
<1>7. CASE HandlePlay
  BY <1>7, HandlePlayStep
<1>8. CASE HandleStop
  BY <1>8, HandleStopStep
<1>9. CASE ShufMode
  BY <1>9, ShufModeStep
<1>10. CASE Ended
  BY <1>10, EndedStep
<1>11. CASE UNCHANGED vars
  <2>1. UNCHANGED <<toService, order, place, shuffleMode, fixedShuffle, buttonMode, heard, slips>>
    BY <1>11 DEF vars, modes, ui
  <2>2. ListVars'
    BY <1>11 DEF Inv, Typed, ListVars, vars, order, ui
  <2> QED BY <2>1, <2>2, QuietKeeps
<1> QED BY <1>1, <1>2, <1>3, <1>4, <1>5, <1>6, <1>7, <1>8, <1>9, <1>10, <1>11 DEF Next

\* For any playlists, the number of the current song and the number it has in the
\* list agree in every shuffle mode, through every delivery of the commands,
\* unless shuffle was switched on before the first list.
THEOREM NumbersAgree == Spec => []CurrentIsReal
<1>1. Inv => CurrentIsReal
  BY DEF Inv
<1> QED BY <1>1, InitInv, NextInv, PTL DEF Spec
=============================================================================
