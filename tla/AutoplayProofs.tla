--------------------------- MODULE AutoplayProofs ---------------------------
(***************************************************************************)
(* What is proved of Autoplay for any number of songs and broadcasts: the  *)
(* safety properties of the watchers.                                      *)
(***************************************************************************)
EXTENDS Autoplay, FiniteSetTheorems, TLAPS

Live(w) == wpc[w] \notin {"none", "done"}
FromWatcher(i) == toService[i].from = "watcher"
Clean == "behind" \notin excuses /\ "late" \notin excuses

\* From the start of a command to the start of a song no watcher may advance.
Quiet == pc \in {"stable", "stop", "unbreak", "join", "arm"} => ~shouldAdvance

\* How the state and the song go together.
PlayInv ==
    /\ playing = "loading" => state = "LOADING" /\ format = "thread"
    /\ playing = "going" => state \in {"PLAYING", "REQSTOP"}
    /\ playing = "leaving" => format = "thread"
    /\ playing = "going" /\ state = "REQSTOP" => ~shouldAdvance
    /\ format = "player" => state \in {"IDLE", "PLAYING"}
    /\ format = "player" => (state = "IDLE" <=> playing = "over")
    /\ pc \in {"arm", "launch"} => playing = "over"

\* After a stop there is nothing that could start a song.
StopInv ==
    stopped /\ "late" \notin excuses =>
        /\ ~shouldAdvance
        /\ \A w \in Starts : wpc[w] \notin Deciding
        /\ \A i \in DOMAIN toService : ~FromWatcher(i)
        /\ pc \in {"idle", "stop"}
        /\ pc = "stop" => cmd = "stop"

\* Only the last song is watched, and its watcher decides while no command is
\* handled; when it has sent its command nobody else is left.
OwnInv ==
    Clean =>
        /\ \A w \in Starts : Live(w) => w = started /\ pc \notin {"launch", "spawn"}
        /\ \A w \in Starts : wpc[w] \in Deciding => pc = "idle"
        /\ \A i \in DOMAIN toService : FromWatcher(i) =>
              /\ pc = "idle"
              /\ \A w \in Starts : ~Live(w)
              /\ \A j \in DOMAIN toService : FromWatcher(j) => j = i

\* A watcher that waits does so for its own song.
WaitInv ==
    Clean =>
        \A w \in Starts :
            /\ wpc[w] = "poll" => format = "player"
            /\ wpc[w] = "join" => format = "thread" /\ target[w] = playThread

\* A song that is over and may be followed by another ended by itself.
SilentInv ==
    Clean =>
        /\ shouldAdvance /\ playing \in {"leaving", "over"}
           /\ (pc = "spawn" \/ \E w \in Starts : Live(w)) => silent \/ state = "ERROR"
        /\ \A w \in Starts :
              /\ wpc[w] \in {"error", "advance"} \union Deciding => playing = "over"
              /\ wpc[w] = "advance" /\ shouldAdvance => silent
              /\ wpc[w] \in Deciding => silent

IInv == TypeOK /\ Quiet /\ PlayInv /\ StopInv /\ OwnInv /\ WaitInv /\ SilentInv

----------------------------------------------------------------------------
(* Types                                                                   *)

\* The two kinds of messages.
LEMMA MessageTyped ==
    ASSUME NEW c \in Commands, NEW f \in {"activity", "watcher"}
    PROVE  [cmd |-> c, from |-> f] \in Message
BY DEF Message

\* What the listener asks for is a queue of messages again.
LEMMA AskTyped ==
    ASSUME NEW c \in Commands, toService \in Seq(Message), Ask(c)
    PROVE  toService' \in Seq(Message)
<1> DEFINE S == [cmd |-> "stop", from |-> "activity"]
           M == [cmd |-> c, from |-> "activity"]
<1>1. S \in Message /\ M \in Message
  BY MessageTyped DEF Commands
<1>2. toService' = toService \o (IF c = "select" THEN <<S>> ELSE <<>>) \o <<M>>
  BY DEF Ask
<1> HIDE DEF S, M
<1>3. (IF c = "select" THEN <<S>> ELSE <<>>) \in Seq(Message) /\ <<M>> \in Seq(Message)
  BY <1>1
<1> QED BY <1>2, <1>3

\* A queue that is not empty has a first message and a rest.
LEMMA QueueTyped ==
    ASSUME NEW q \in Seq(Message), q # <<>>
    PROVE  /\ Head(q) \in Message /\ Head(q).cmd \in Commands
           /\ Head(q) = q[1] /\ 1 \in DOMAIN q
           /\ Tail(q) \in Seq(Message)
           /\ DOMAIN Tail(q) = 1..(Len(q) - 1)
           /\ \A i \in DOMAIN Tail(q) : i + 1 \in 2..Len(q) /\ Tail(q)[i] = q[i + 1]
<1>1. Head(q) \in Message /\ Tail(q) \in Seq(Message) /\ Head(q) = q[1]
  OBVIOUS
<1>2. Head(q).cmd \in Commands
  BY <1>1 DEF Message
<1>3. Len(q) \in Nat /\ Len(q) # 0 /\ DOMAIN q = 1..Len(q)
  OBVIOUS
<1>4. Len(Tail(q)) = Len(q) - 1 /\ DOMAIN Tail(q) = 1..Len(Tail(q))
  BY <1>1, <1>3
<1>5. \A i \in 1..(Len(q) - 1) : Tail(q)[i] = q[i + 1]
  BY <1>3
<1> QED BY <1>1, <1>2, <1>3, <1>4, <1>5

\* The history holds kinds of mishaps only, and never forgets one.
LEMMA ExcuseTyped ==
    ASSUME NEW kind \in Excuses, NEW condition, excuses \subseteq Excuses
    PROVE  Excuse(kind, condition) \subseteq Excuses /\ excuses \subseteq Excuse(kind, condition)
BY DEF Excuse

\* The delivery of a command leaves a queue and a history of the right types.
LEMMA DeliverTyped ==
    ASSUME TypeOK, Deliver
    PROVE  /\ cmd' \in Commands /\ toService' \in Seq(Message)
           /\ silent' \in BOOLEAN /\ stopped' \in BOOLEAN
           /\ excuses' \subseteq Excuses /\ excuses \subseteq excuses'
<1>1. cmd' \in Commands /\ toService' \in Seq(Message)
  BY QueueTyped DEF TypeOK, Deliver
<1>2. excuses' \subseteq Excuses /\ excuses \subseteq excuses'
  BY ExcuseTyped DEF TypeOK, Deliver, Excuses
<1> QED BY <1>1, <1>2 DEF TypeOK, Deliver

\* The initial state has the types of the variables.
LEMMA InitTypeOK == Init => TypeOK
<1> SUFFICES ASSUME Init PROVE TypeOK
  OBVIOUS
<1>1. <<>> \in Seq(Message)
  OBVIOUS
<1>2. wpc \in [Starts -> WatcherCode] /\ target \in [Starts -> 0..MaxStarts]
  BY BoundsAssumption DEF Init, WatcherCode
<1>3. started \in 0..MaxStarts /\ playThread \in 0..MaxStarts
  BY BoundsAssumption DEF Init
<1> QED BY <1>1, <1>2, <1>3 DEF Init, TypeOK, MainCode, Commands

\* A step of the main thread within a command keeps the types.
LEMMA GoOnTypeOK == TypeOK /\ GoOn => TypeOK'
<1> SUFFICES ASSUME TypeOK, GoOn PROVE TypeOK'
  OBVIOUS
<1> USE DEF TypeOK, flags, song, watchers, main, history
<1>1. CASE Stable BY <1>1 DEF Stable, MainCode
<1>2. CASE StopSong BY <1>2 DEF StopSong, MainCode
<1>3. CASE Unbreak BY <1>3 DEF Unbreak, MainCode
<1>4. CASE Joined BY <1>4 DEF Joined, MainCode
<1>5. CASE Arm
  <2>1. excuses' \subseteq Excuses
    BY <1>5, ExcuseTyped DEF Arm, Excuses
  <2> QED BY <1>5, <2>1 DEF Arm, MainCode
<1>6. CASE Launch
  <2>1. format' \in {"thread", "player"}
    BY <1>6, BackendsAssumption DEF Launch
  <2>2. state' \in {"IDLE", "LOADING", "PLAYING", "REQSTOP", "ERROR"}
        /\ playing' \in {"loading", "going", "leaving", "over"} /\ pc' \in MainCode
    BY <1>6 DEF Launch, MainCode
  <2>3. started' \in 0..MaxStarts /\ playThread' \in 0..MaxStarts
    BY <1>6, BoundsAssumption DEF Launch
  <2>4. shouldAdvance' \in BOOLEAN /\ silent' \in BOOLEAN
    BY <1>6 DEF Launch
  <2> QED BY <1>6, <2>1, <2>2, <2>3, <2>4 DEF Launch
<1>7. CASE Spawn
  BY <1>7 DEF Spawn, MainCode, WatcherCode
<1> QED BY <1>1, <1>2, <1>3, <1>4, <1>5, <1>6, <1>7 DEF GoOn

\* A step of a watcher keeps the types.
LEMMA WatcherTypeOK == ASSUME TypeOK, NEW w \in Starts, Watcher(w) PROVE TypeOK'
<1> USE DEF TypeOK, flags, song, watchers, main, history, Goto
<1>0. \A code \in WatcherCode : [wpc EXCEPT ![w] = code] \in [Starts -> WatcherCode]
  OBVIOUS
<1>1. CASE Loading(w) BY <1>1, <1>0 DEF Loading, WatcherCode
<1>2. CASE Wait(w) BY <1>2, <1>0 DEF Wait, WatcherCode
<1>3. CASE Waited(w) BY <1>3, <1>0 DEF Waited, WatcherCode
<1>4. CASE Failed(w) BY <1>4, <1>0 DEF Failed, WatcherCode
<1>5. CASE TestAdvance(w) BY <1>5, <1>0 DEF TestAdvance, WatcherCode, Deciding
<1>6. CASE TestBreak(w) BY <1>6, <1>0 DEF TestBreak, WatcherCode, Deciding
<1>7. CASE Clear(w) BY <1>7, <1>0 DEF Clear, WatcherCode, Deciding
<1>8. CASE Send(w)
  <2>1. PICK c \in Commands : toService' = Append(toService, [cmd |-> c, from |-> "watcher"])
    BY <1>8 DEF Send, Commands
  <2>2. [cmd |-> c, from |-> "watcher"] \in Message
    BY MessageTyped
  <2>3. toService' \in Seq(Message)
    BY <2>1, <2>2
  <2> QED BY <1>8, <1>0, <2>3 DEF Send, WatcherCode
<1> QED BY <1>1, <1>2, <1>3, <1>4, <1>5, <1>6, <1>7, <1>8 DEF Watcher

\* Every step keeps the types.
LEMMA NextTypeOK == TypeOK /\ [Next]_vars => TypeOK'
<1> SUFFICES ASSUME TypeOK, [Next]_vars PROVE TypeOK'
  OBVIOUS
<1> USE DEF flags, song, watchers, main, history
<1>1. ASSUME NEW c \in Commands, Ask(c) PROVE TypeOK'
  BY <1>1, AskTyped DEF TypeOK, Ask
<1>2. CASE BeginPlay
  BY <1>2, DeliverTyped DEF TypeOK, BeginPlay, MainCode
<1>3. CASE BeginStop
  BY <1>3, DeliverTyped DEF TypeOK, BeginStop, MainCode
<1>4. CASE BeginSelect
  <2>1. cmd' \in Commands /\ toService' \in Seq(Message)
    BY <1>4, QueueTyped DEF TypeOK, BeginSelect
  <2>2. excuses' \subseteq Excuses
    BY <1>4, ExcuseTyped DEF TypeOK, BeginSelect, Excuses
  <2> QED BY <1>4, <2>1, <2>2 DEF TypeOK, BeginSelect, MainCode
<1>5. CASE GoOn BY <1>5, GoOnTypeOK
<1>6. CASE Completed BY <1>6 DEF TypeOK, Completed, Unattended
<1>7. CASE Song BY <1>7 DEF TypeOK, Song, Unattended
<1>8. ASSUME NEW w \in Starts, Watcher(w) PROVE TypeOK'
  BY <1>8, WatcherTypeOK
<1>9. CASE UNCHANGED vars BY <1>9 DEF TypeOK, vars
<1> QED BY <1>1, <1>2, <1>3, <1>4, <1>5, <1>6, <1>7, <1>8, <1>9 DEF Next, Begin

\* The variables always have the types their users rely on.
THEOREM Typing == Spec => []TypeOK
BY InitTypeOK, NextTypeOK, PTL DEF Spec

----------------------------------------------------------------------------
(* The state and the flags                                                 *)

\* shouldAdvance is false while a command makes room for a song.
LEMMA QuietStep == TypeOK /\ Quiet /\ [Next]_vars => Quiet'
<1> SUFFICES ASSUME TypeOK, Quiet, [Next]_vars PROVE Quiet'
  OBVIOUS
<1> USE DEF flags, song, watchers, main, history, Quiet
<1>1. ASSUME NEW c \in Commands, Ask(c) PROVE Quiet' BY <1>1 DEF Ask
<1>2. CASE BeginPlay BY <1>2 DEF BeginPlay
<1>3. CASE BeginStop BY <1>3 DEF BeginStop
<1>4. CASE BeginSelect BY <1>4 DEF BeginSelect
<1>5. CASE GoOn
  BY <1>5 DEF GoOn, Stable, StopSong, Unbreak, Joined, Arm, Launch, Spawn
<1>6. CASE Completed BY <1>6 DEF Completed
<1>7. CASE Song BY <1>7 DEF Song
<1>8. ASSUME NEW w \in Starts, Watcher(w) PROVE Quiet'
  BY <1>8 DEF Watcher, Loading, Wait, Waited, Failed, TestAdvance, TestBreak, Clear, Send
<1>9. CASE UNCHANGED vars BY <1>9 DEF vars
<1> QED BY <1>1, <1>2, <1>3, <1>4, <1>5, <1>6, <1>7, <1>8, <1>9 DEF Next, Begin

\* The state agrees with the song.
LEMMA PlayStep == TypeOK /\ Quiet /\ PlayInv /\ [Next]_vars => PlayInv'
<1> SUFFICES ASSUME TypeOK, Quiet, PlayInv, [Next]_vars PROVE PlayInv'
  OBVIOUS
<1> USE DEF flags, song, watchers, main, history, PlayInv
<1>1. ASSUME NEW c \in Commands, Ask(c) PROVE PlayInv' BY <1>1 DEF Ask
<1>2. CASE BeginPlay BY <1>2 DEF BeginPlay
<1>3. CASE BeginStop BY <1>3 DEF BeginStop
<1>4. CASE BeginSelect BY <1>4 DEF BeginSelect
<1>5. CASE GoOn
  <2>1. CASE Stable BY <2>1 DEF Stable
  <2>2. CASE StopSong BY <2>2 DEF StopSong, TypeOK, Quiet
  <2>3. CASE Unbreak BY <2>3 DEF Unbreak
  <2>4. CASE Joined BY <2>4 DEF Joined, Over, TypeOK
  <2>5. CASE Arm BY <2>5 DEF Arm
  <2>6. CASE Launch BY <2>6, BackendsAssumption DEF Launch
  <2>7. CASE Spawn BY <2>7 DEF Spawn
  <2> QED BY <1>5, <2>1, <2>2, <2>3, <2>4, <2>5, <2>6, <2>7 DEF GoOn
<1>6. CASE Completed BY <1>6 DEF Completed
<1>7. CASE Song BY <1>7 DEF Song
<1>8. ASSUME NEW w \in Starts, Watcher(w) PROVE PlayInv'
  <2>1. CASE Failed(w) BY <2>1 DEF Failed, TypeOK
  <2> QED
    BY <1>8, <2>1 DEF Watcher, Loading, Wait, Waited, TestAdvance, TestBreak, Clear, Send
<1>9. CASE UNCHANGED vars BY <1>9 DEF vars
<1> QED BY <1>1, <1>2, <1>3, <1>4, <1>5, <1>6, <1>7, <1>8, <1>9 DEF Next, Begin

----------------------------------------------------------------------------
(* The queue                                                               *)

\* Appending a message adds it at the end.
LEMMA AppendAt ==
    ASSUME NEW q \in Seq(Message), NEW m \in Message
    PROVE  \A i \in DOMAIN Append(q, m) :
              \/ i = Len(q) + 1 /\ Append(q, m)[i] = m
              \/ i \in DOMAIN q /\ Append(q, m)[i] = q[i]
<1>1. Len(q) \in Nat /\ DOMAIN q = 1..Len(q)
  OBVIOUS
<1>2. DOMAIN Append(q, m) = 1..(Len(q) + 1)
  OBVIOUS
<1>3. \A i \in 1..(Len(q) + 1) : i = Len(q) + 1 \/ i \in 1..Len(q)
  BY <1>1
<1>4. Append(q, m)[Len(q) + 1] = m /\ \A i \in 1..Len(q) : Append(q, m)[i] = q[i]
  OBVIOUS
<1> QED BY <1>1, <1>2, <1>3, <1>4

\* The listener adds no command of a watcher.
LEMMA AskFrom ==
    ASSUME TypeOK, NEW c \in Commands, Ask(c)
    PROVE  \A i \in DOMAIN toService' :
              FromWatcher(i)' => i \in DOMAIN toService /\ FromWatcher(i)
<1> DEFINE S == [cmd |-> "stop", from |-> "activity"]
           M == [cmd |-> c, from |-> "activity"]
           first == IF c = "select" THEN <<S>> ELSE <<>>
<1>1. S \in Message /\ M \in Message
  BY MessageTyped DEF Commands
<1>2. S.from = "activity" /\ M.from = "activity"
  OBVIOUS
<1>3. toService' = (toService \o first) \o <<M>>
  BY DEF Ask
<1> HIDE DEF S, M
<1>4. first \in Seq(Message) /\ \A i \in DOMAIN first : first[i].from = "activity"
  BY <1>1, <1>2
<1> HIDE DEF first
<1>5. toService \in Seq(Message)
  BY DEF TypeOK
<1>6. PICK q \in Seq(Message) : q = toService \o first
  <2>1. toService \o first \in Seq(Message)
    BY <1>4, <1>5
  <2> QED BY <2>1
<1>7. toService' = Append(q, M)
  BY <1>1, <1>3, <1>6
<1>8. \A i \in DOMAIN toService' : toService'[i] = M \/ (i \in DOMAIN q /\ toService'[i] = q[i])
  BY <1>1, <1>7, AppendAt
<1>9. \A i \in DOMAIN q : \/ i \in DOMAIN toService /\ q[i] = toService[i]
                          \/ \E k \in DOMAIN first : q[i] = first[k]
  <2> SUFFICES ASSUME NEW i \in DOMAIN q
               PROVE  \/ i \in DOMAIN toService /\ q[i] = toService[i]
                      \/ \E k \in DOMAIN first : q[i] = first[k]
    OBVIOUS
  <2>1. CASE i <= Len(toService) BY <1>4, <1>5, <1>6, <2>1
  <2>2. CASE i > Len(toService)
    <3>1. i - Len(toService) \in DOMAIN first /\ q[i] = first[i - Len(toService)]
      BY <1>4, <1>5, <1>6, <2>2
    <3> QED BY <3>1
  <2> QED BY <1>5, <1>6, <2>1, <2>2
<1> QED BY <1>2, <1>4, <1>8, <1>9 DEF FromWatcher

\* What is left when the first is taken was behind it.
LEMMA TailFrom ==
    ASSUME TypeOK, toService # <<>>, toService' = Tail(toService)
    PROVE  /\ 1 \in DOMAIN toService /\ Head(toService) = toService[1]
           /\ \A i \in DOMAIN toService' :
                 /\ i \in Nat /\ i + 1 \in DOMAIN toService /\ i + 1 \in 2..Len(toService)
                 /\ FromWatcher(i)' => FromWatcher(i + 1)
<1>1. toService \in Seq(Message)
  BY DEF TypeOK
<1>2. \A i \in DOMAIN toService' : i \in Nat /\ i + 1 \in 2..Len(toService)
                                  /\ toService'[i] = toService[i + 1]
  BY <1>1, QueueTyped
<1>3. 2..Len(toService) \subseteq DOMAIN toService
  BY <1>1
<1> QED BY <1>1, <1>2, <1>3, QueueTyped DEF FromWatcher

\* A watcher adds one command at the end.
LEMMA SendFrom ==
    ASSUME TypeOK, NEW w \in Starts, Send(w)
    PROVE  \A i \in DOMAIN toService' : FromWatcher(i)' =>
              \/ i = Len(toService) + 1
              \/ i \in DOMAIN toService /\ FromWatcher(i)
<1>1. PICK c \in Commands : toService' = Append(toService, [cmd |-> c, from |-> "watcher"])
  BY DEF Send, Commands
<1>2. [cmd |-> c, from |-> "watcher"] \in Message
  BY MessageTyped
<1>3. PICK m \in Message : toService' = Append(toService, m)
  BY <1>1, <1>2
<1>4. \A i \in DOMAIN toService' :
         \/ i = Len(toService) + 1
         \/ i \in DOMAIN toService /\ toService'[i] = toService[i]
  BY <1>3, AppendAt DEF TypeOK
<1> QED BY <1>4 DEF FromWatcher

\* A command that is delivered without being late is a watcher's, or no watcher
\* decides and none has a command waiting.
LEMMA InTime ==
    ASSUME TypeOK, Deliver \/ (BeginSelect /\ plist), "late" \notin excuses'
    PROVE  /\ "late" \notin excuses
           /\ \/ FromWatcher(1) /\ UNCHANGED stopped /\ Deliver
              \/ /\ \A w \in Starts : wpc[w] \notin Deciding
                 /\ \A i \in DOMAIN toService' : ~FromWatcher(i)'
<1>1. toService # <<>> /\ toService' = Tail(toService)
  BY DEF Deliver, BeginSelect
<1>2. CASE Deliver /\ Head(toService).from = "watcher"
  BY <1>1, <1>2, TailFrom DEF Deliver, FromWatcher
<1>3. CASE ~(Deliver /\ Head(toService).from = "watcher")
  <2>1. excuses' = Excuse("late", Overtaken)
    BY <1>3 DEF Deliver, BeginSelect
  <2>2. ~Overtaken /\ "late" \notin excuses
    BY <2>1 DEF Excuse
  <2>3. /\ \A w \in Starts : wpc[w] \notin Deciding
        /\ \A i \in 2..Len(toService) : ~FromWatcher(i)
    BY <2>2 DEF Overtaken, FromWatcher
  <2> QED BY <1>1, <2>2, <2>3, TailFrom
<1> QED BY <1>2, <1>3

\* A step of a watcher moves that watcher, which was not done.
LEMMA WatcherMoves ==
    ASSUME TypeOK, NEW w \in Starts, Watcher(w)
    PROVE  /\ Live(w) /\ \A v \in Starts : v # w => wpc'[v] = wpc[v]
           /\ UNCHANGED <<pc, cmd, started, stopped, excuses, format, playing, playThread>>
           /\ Send(w) \/ UNCHANGED <<toService, silent>>
           /\ shouldAdvance' \in {shouldAdvance, FALSE}
           /\ wpc'[w] \in Deciding => wpc[w] \in Deciding \/ (wpc[w] = "advance" /\ shouldAdvance)
BY DEF TypeOK, Watcher, Loading, Wait, Waited, Failed, TestAdvance, TestBreak, Clear, Send, Goto,
       Live, Deciding, flags, song, watchers, main, history

----------------------------------------------------------------------------
(* After a stop                                                            *)

\* What holds after a stop holds until the listener asks for a song.
LEMMA StopStep == TypeOK /\ StopInv /\ [Next]_vars => StopInv'
<1> SUFFICES ASSUME TypeOK, StopInv, [Next]_vars, stopped', "late" \notin excuses'
             PROVE  /\ ~shouldAdvance'
                    /\ \A w \in Starts : wpc'[w] \notin Deciding
                    /\ \A i \in DOMAIN toService' : ~FromWatcher(i)'
                    /\ pc' \in {"idle", "stop"}
                    /\ pc' = "stop" => cmd' = "stop"
  BY DEF StopInv
<1> DEFINE Goal == /\ ~shouldAdvance'
                   /\ \A w \in Starts : wpc'[w] \notin Deciding
                   /\ \A i \in DOMAIN toService' : ~FromWatcher(i)'
                   /\ pc' \in {"idle", "stop"}
                   /\ pc' = "stop" => cmd' = "stop"
<1>0. (UNCHANGED <<toService>>) => \A i \in DOMAIN toService' : FromWatcher(i)' = FromWatcher(i)
  BY DEF FromWatcher
<1> USE DEF flags, song, watchers, main, history
<1>1. ASSUME NEW c \in Commands, Ask(c) PROVE Goal
  BY <1>1, AskFrom DEF Ask, StopInv
<1>2. CASE BeginPlay \/ BeginStop
  <2>0. Deliver
    BY <1>2 DEF BeginPlay, BeginStop
  <2>1. "late" \notin excuses /\ ~(FromWatcher(1) /\ UNCHANGED stopped)
    <3>1. 1 \in DOMAIN toService
      BY <2>0, TailFrom DEF Deliver
    <3> QED BY <2>0, <3>1, InTime DEF StopInv
  <2>2. /\ \A w \in Starts : wpc[w] \notin Deciding
        /\ \A i \in DOMAIN toService' : ~FromWatcher(i)'
    BY <2>0, <2>1, InTime
  <2>3. cmd' = "stop"
    BY <2>0, <2>1, TailFrom DEF Deliver, FromWatcher
  <2>4. BeginStop
    BY <1>2, <2>3 DEF BeginPlay
  <2> QED BY <2>2, <2>3, <2>4 DEF BeginStop
<1>3. CASE BeginSelect BY <1>3 DEF BeginSelect
<1>5. CASE GoOn
  <2>1. stopped /\ "late" \notin excuses
    BY <1>5 DEF GoOn, Stable, StopSong, Unbreak, Joined, Arm, Launch, Spawn, Excuse
  <2>2. StopSong
    BY <1>5, <2>1 DEF GoOn, Stable, StopSong, Unbreak, Joined, Arm, Launch, Spawn, StopInv
  <2> QED BY <1>0, <2>1, <2>2 DEF StopSong, StopInv
<1>6. CASE Completed BY <1>0, <1>6 DEF Completed, StopInv
<1>7. CASE Song BY <1>0, <1>7 DEF Song, StopInv
<1>8. ASSUME NEW w \in Starts, Watcher(w) PROVE Goal
  <2>1. stopped /\ "late" \notin excuses /\ wpc[w] \notin Deciding
    BY <1>8, WatcherMoves DEF StopInv
  <2>2. ~Send(w)
    BY <2>1 DEF Send, Deciding
  <2> QED BY <1>0, <1>8, <2>1, <2>2, WatcherMoves DEF StopInv
<1>9. CASE UNCHANGED vars BY <1>0, <1>9 DEF vars, StopInv
<1> QED BY <1>1, <1>2, <1>3, <1>5, <1>6, <1>7, <1>8, <1>9 DEF Next, Begin

\* Once the listener has said stop, no song is started before he asks for one,
\* unless a watcher had decided when the stop was handled.
THEOREM StopHolds == Spec => StaysStopped
<1>1. Init => StopInv
  BY DEF Init, StopInv
<1>2. TypeOK /\ StopInv /\ [Next]_vars => [started' # started /\ stopped => "late" \in excuses]_vars
  <2> SUFFICES ASSUME TypeOK, StopInv, Next, started' # started, stopped, "late" \notin excuses
               PROVE  FALSE
    BY DEF vars, song
  <2>1. Launch
    BY WatcherMoves
       DEF Next, Begin, GoOn, Ask, BeginPlay, BeginStop, BeginSelect, Stable, StopSong, Unbreak,
           Joined, Arm, Spawn, Completed, Song, flags, song, watchers, main, history
  <2> QED BY <2>1 DEF Launch, StopInv
<1>3. Spec => []StopInv
  BY <1>1, InitTypeOK, NextTypeOK, StopStep, PTL DEF Spec
<1> QED BY <1>2, <1>3, Typing, PTL DEF Spec, StaysStopped

----------------------------------------------------------------------------
(* The watcher of the last song                                            *)

\* A step that forgets no mishap and adds none to a clean history keeps it so.
LEMMA CleanBefore == TypeOK /\ [Next]_vars /\ Clean' => Clean
<1> SUFFICES ASSUME TypeOK, [Next]_vars, Clean' PROVE Clean
  OBVIOUS
<1>1. CASE Deliver
  <2>1. excuses \subseteq excuses'
    BY <1>1, DeliverTyped
  <2> QED BY <2>1 DEF Clean
<1>2. CASE BeginSelect
  <2>1. excuses \subseteq excuses'
    BY <1>2, ExcuseTyped DEF BeginSelect, TypeOK, Excuses
  <2> QED BY <2>1 DEF Clean
<1>3. CASE Arm
  <2>1. excuses \subseteq excuses'
    BY <1>3, ExcuseTyped DEF Arm, TypeOK, Excuses
  <2> QED BY <2>1 DEF Clean
<1>4. CASE ~Deliver /\ ~BeginSelect /\ ~Arm
  <2>1. excuses' = excuses
    BY <1>4, WatcherMoves
       DEF Next, Begin, GoOn, Ask, BeginPlay, BeginStop, Stable, StopSong, Unbreak,
           Joined, Launch, Spawn, Completed, Song, history, vars
  <2> QED BY <2>1 DEF Clean
<1> QED BY <1>1, <1>2, <1>3, <1>4

\* What OwnInv says of one watcher and of one message.
OwnWatcher(w) == /\ Live(w) => w = started /\ pc \notin {"launch", "spawn"}
                 /\ wpc[w] \in Deciding => pc = "idle"
OwnMessage(i) == FromWatcher(i) =>
                    /\ pc = "idle"
                    /\ \A w \in Starts : ~Live(w)
                    /\ \A j \in DOMAIN toService : FromWatcher(j) => j = i

\* Only the last song is watched, whatever the threads do.
LEMMA OwnStep == TypeOK /\ Quiet /\ OwnInv /\ [Next]_vars => OwnInv'
<1> SUFFICES ASSUME TypeOK, Quiet, [Next]_vars, Clean', Clean,
                    \A w \in Starts : OwnWatcher(w),
                    \A i \in DOMAIN toService : OwnMessage(i)
             PROVE  /\ \A w \in Starts : OwnWatcher(w)'
                    /\ \A i \in DOMAIN toService' : OwnMessage(i)'
  BY CleanBefore DEF OwnInv, OwnWatcher, OwnMessage
<1> DEFINE Goal == /\ \A w \in Starts : OwnWatcher(w)'
                   /\ \A i \in DOMAIN toService' : OwnMessage(i)'
<1>0. UNCHANGED <<toService, wpc, pc, started>> => Goal
  BY DEF OwnWatcher, OwnMessage, FromWatcher, Live
<1> USE DEF flags, song, watchers, main, history
<1>1. ASSUME NEW c \in Commands, Ask(c) PROVE Goal
  <2>1. \A w \in Starts : OwnWatcher(w)'
    BY <1>1 DEF Ask, OwnWatcher, Live
  <2>2. \A i \in DOMAIN toService' : OwnMessage(i)'
    BY <1>1, AskFrom DEF Ask, OwnMessage, Live
  <2> QED BY <2>1, <2>2
<1>2. CASE BeginPlay \/ BeginStop \/ (BeginSelect /\ plist)
  <2>1. /\ UNCHANGED <<wpc, started>> /\ pc' \in {"stable", "stop"}
        /\ toService # <<>> /\ toService' = Tail(toService)
        /\ Deliver \/ (BeginSelect /\ plist)
    BY <1>2 DEF BeginPlay, BeginStop, BeginSelect, Deliver
  <2>2. /\ \A w \in Starts : wpc[w] \notin Deciding
        /\ \A i \in DOMAIN toService' : ~FromWatcher(i)'
    <3>1. CASE FromWatcher(1)
      <4>1. 1 \in DOMAIN toService /\ \A w \in Starts : ~Live(w)
        BY <2>1, <3>1, TailFrom DEF OwnMessage
      <4>2. \A i \in DOMAIN toService : FromWatcher(i) => i = 1
        BY <3>1, <4>1 DEF OwnMessage
      <4>3. \A i \in DOMAIN toService' : ~FromWatcher(i)'
        BY <2>1, <4>2, TailFrom
      <4> QED BY <4>1, <4>3 DEF Live, Deciding
    <3>2. CASE ~FromWatcher(1)
      BY <2>1, <3>2, InTime DEF Clean
    <3> QED BY <3>1, <3>2
  <2> QED BY <2>1, <2>2 DEF OwnWatcher, OwnMessage, Live
<1>3. CASE BeginSelect /\ ~plist
  <2>1. /\ UNCHANGED <<wpc, started, pc>>
        /\ toService # <<>> /\ toService' = Tail(toService)
    BY <1>3 DEF BeginSelect
  <2>2. \A w \in Starts : OwnWatcher(w)'
    BY <2>1 DEF OwnWatcher, Live
  <2>3. \A i \in DOMAIN toService' : OwnMessage(i)'
    BY <2>1, TailFrom DEF OwnMessage, Live
  <2> QED BY <2>2, <2>3
<1>4. CASE GoOn
  <2>0. \A i \in DOMAIN toService : ~FromWatcher(i)
    BY <1>4 DEF GoOn, Stable, StopSong, Unbreak, Joined, Arm, Launch, Spawn, OwnMessage
  <2>1. \A i \in DOMAIN toService' : OwnMessage(i)'
    BY <1>4, <2>0
       DEF GoOn, Stable, StopSong, Unbreak, Joined, Arm, Launch, Spawn, OwnMessage, FromWatcher
  <2>2. \A w \in Starts : wpc[w] \notin Deciding
    BY <1>4 DEF GoOn, Stable, StopSong, Unbreak, Joined, Arm, Launch, Spawn, OwnWatcher
  <2>3. CASE Stable \/ StopSong \/ Unbreak \/ Joined
    BY <2>1, <2>2, <2>3 DEF Stable, StopSong, Unbreak, Joined, OwnWatcher, Live
  <2>4. CASE Arm
    <3>1. \A w \in Starts : ~Live(w)
      BY <2>4 DEF Arm, Excuse, Clean, Live
    <3> QED BY <2>1, <2>2, <2>4, <3>1 DEF Arm, OwnWatcher, Live
  <2>5. CASE Launch
    BY <2>1, <2>2, <2>5 DEF Launch, OwnWatcher, Live
  <2>6. CASE Spawn
    <3>1. \A w \in Starts : w # started => wpc'[w] = wpc[w]
      BY <2>6 DEF Spawn, TypeOK
    <3>2. \A w \in Starts : wpc'[w] \notin Deciding
      BY <2>2, <2>6, <3>1 DEF Spawn, TypeOK, Deciding
    <3> QED BY <2>1, <2>6, <3>1, <3>2 DEF Spawn, OwnWatcher, Live
  <2> QED BY <1>4, <2>3, <2>4, <2>5, <2>6 DEF GoOn
<1>5. CASE Completed BY <1>0, <1>5 DEF Completed
<1>6. CASE Song BY <1>0, <1>6 DEF Song
<1>7. ASSUME NEW w \in Starts, Watcher(w) PROVE Goal
  <2>1. /\ Live(w) /\ w = started /\ pc \notin {"launch", "spawn"}
        /\ \A v \in Starts : v # w => ~Live(v)
        /\ \A i \in DOMAIN toService : ~FromWatcher(i)
    BY <1>7, WatcherMoves DEF OwnWatcher, OwnMessage
  <2>2. wpc'[w] \in Deciding => pc = "idle"
    BY <1>7, <2>1, WatcherMoves DEF OwnWatcher, Quiet, TypeOK, MainCode
  <2>3. \A v \in Starts : OwnWatcher(v)'
    BY <1>7, <2>1, <2>2, WatcherMoves DEF OwnWatcher, Live, Deciding
  <2>4. CASE Send(w)
    <3>1. pc = "idle" /\ ~Live(w)'
      BY <2>1, <2>4 DEF Send, OwnWatcher, Deciding, Goto, TypeOK, Live
    <3>2. \A v \in Starts : ~Live(v)'
      BY <1>7, <2>1, <3>1, WatcherMoves DEF Live
    <3>3. \A i \in DOMAIN toService' : FromWatcher(i)' => i = Len(toService) + 1
      BY <2>1, <2>4, SendFrom
    <3>4. \A i \in DOMAIN toService' : OwnMessage(i)'
      BY <1>7, <3>1, <3>2, <3>3, WatcherMoves DEF OwnMessage
    <3> QED BY <2>3, <3>4
  <2>5. CASE ~Send(w)
    <3>1. \A i \in DOMAIN toService' : OwnMessage(i)'
      BY <1>7, <2>1, <2>5, WatcherMoves DEF OwnMessage, FromWatcher
    <3> QED BY <2>3, <3>1
  <2> QED BY <2>4, <2>5
<1>8. CASE UNCHANGED vars BY <1>0, <1>8 DEF vars
<1> QED BY <1>1, <1>2, <1>3, <1>4, <1>5, <1>6, <1>7, <1>8 DEF Next, Begin

\* OwnInv leaves room for one advance only.
LEMMA OwnImpliesOne == TypeOK /\ OwnInv => OneAdvance
<1> SUFFICES ASSUME TypeOK, OwnInv, Without({"behind", "late"})
             PROVE  Cardinality(Autos) + Cardinality({w \in Starts : wpc[w] \in {"clear", "send"}}) <= 1
  BY DEF OneAdvance
<1> DEFINE G == {w \in Starts : wpc[w] \in {"clear", "send"}}
<1>1. /\ \A w \in Starts : Live(w) => w = started
      /\ \A i \in Autos : (\A w \in Starts : ~Live(w)) /\ (\A j \in Autos : j = i)
  BY DEF OwnInv, Clean, Without, Autos, FromWatcher
<1>2. G \in SUBSET {started} /\ (Autos # {} => G = {})
  BY <1>1 DEF Live
<1>3. Cardinality(G) \in Nat /\ Cardinality(G) <= 1
  <2> HIDE DEF G
  <2>1. IsFiniteSet({started}) /\ Cardinality({started}) = 1
    BY FS_Singleton
  <2>2. IsFiniteSet(G) /\ Cardinality(G) <= Cardinality({started})
    BY <1>2, <2>1, FS_Subset
  <2>3. Cardinality(G) \in Nat
    BY <2>2, FS_CardinalityType
  <2> QED BY <2>1, <2>2, <2>3
<1>4. CASE Autos = {}
  BY <1>3, <1>4, FS_EmptySet
<1>5. CASE Autos # {}
  <2>1. PICK i : Autos = {i}
    BY <1>1, <1>5
  <2>2. Cardinality(Autos) = 1
    BY <2>1, FS_Singleton
  <2>3. Cardinality(G) = 0
    BY <1>2, <1>5, FS_EmptySet
  <2> QED BY <2>2, <2>3
<1> QED BY <1>4, <1>5

\* A song that ends sends one command at most, unless a watcher was left behind
\* or a command of the listener crossed the watcher's.
THEOREM AdvancesOnce == Spec => []OneAdvance
<1>1. Init => Quiet /\ OwnInv
  BY DEF Init, Quiet, OwnInv, Live, Deciding, FromWatcher
<1> QED BY <1>1, InitTypeOK, NextTypeOK, QuietStep, OwnStep, OwnImpliesOne, PTL DEF Spec

----------------------------------------------------------------------------
(* The song ended by itself                                                *)

\* A watcher goes on waiting for its own song.
LEMMA WaitStep == TypeOK /\ OwnInv /\ WaitInv /\ [Next]_vars => WaitInv'
<1> SUFFICES ASSUME TypeOK, OwnInv, [Next]_vars, Clean', Clean, NEW v \in Starts,
                    wpc[v] = "poll" => format = "player",
                    wpc[v] = "join" => format = "thread" /\ target[v] = playThread
             PROVE  /\ wpc'[v] = "poll" => format' = "player"
                    /\ wpc'[v] = "join" => format' = "thread" /\ target'[v] = playThread'
  BY CleanBefore DEF WaitInv
<1> DEFINE Goal == /\ wpc'[v] = "poll" => format' = "player"
                   /\ wpc'[v] = "join" => format' = "thread" /\ target'[v] = playThread'
<1> USE DEF flags, song, watchers, main, history
<1>1. CASE UNCHANGED <<wpc, format, target, playThread>> BY <1>1
<1>2. CASE Launch
  <2>1. ~Live(v) /\ wpc' = wpc
    BY <1>2 DEF Launch, OwnInv
  <2> QED BY <2>1 DEF Live
<1>3. CASE Spawn BY <1>3 DEF Spawn, TypeOK
<1>4. ASSUME NEW w \in Starts, Watcher(w) PROVE Goal
  BY <1>4 DEF Watcher, Loading, Wait, Waited, Failed, TestAdvance, TestBreak, Clear, Send, Goto, TypeOK
<1> QED
  BY <1>1, <1>2, <1>3, <1>4
     DEF Next, Begin, GoOn, Ask, Deliver, BeginPlay, BeginStop, BeginSelect, Stable, StopSong,
         Unbreak, Joined, Arm, Completed, Song, vars

\* The parts of SilentInv.
Ended == shouldAdvance /\ playing \in {"leaving", "over"}
         /\ (pc = "spawn" \/ \E w \in Starts : Live(w)) => silent \/ state = "ERROR"
SilentWatcher(w) == /\ wpc[w] \in {"error", "advance"} \union Deciding => playing = "over"
                    /\ wpc[w] = "advance" /\ shouldAdvance => silent
                    /\ wpc[w] \in Deciding => silent

\* A song that is over ended by itself, or nothing may follow it.
LEMMA EndedStep ==
    TypeOK /\ Quiet /\ PlayInv /\ StopInv /\ OwnInv /\ SilentInv /\ Clean' /\ [Next]_vars => Ended'
<1> SUFFICES ASSUME TypeOK, Quiet, PlayInv, StopInv, OwnInv, Clean, Ended, Clean', [Next]_vars
             PROVE  Ended'
  BY CleanBefore DEF SilentInv, Ended
<1> USE DEF flags, song, watchers, main, history
<1>1. ASSUME NEW c \in Commands, Ask(c) PROVE Ended'
  BY <1>1 DEF Ask, Ended, Live
<1>2. CASE BeginPlay \/ BeginStop BY <1>2 DEF BeginPlay, BeginStop, Ended
<1>3. CASE BeginSelect BY <1>3 DEF BeginSelect, Ended, Live
<1>4. CASE Stable \/ StopSong \/ Unbreak \/ Joined
  BY <1>4 DEF Stable, StopSong, Unbreak, Joined, Quiet, Ended
<1>5. CASE Arm
  <2>1. \A w \in Starts : ~Live(w)
    BY <1>5 DEF Arm, Excuse, Clean, Live
  <2> QED BY <1>5, <2>1 DEF Arm, Ended, Live
<1>6. CASE Launch BY <1>6 DEF Launch, Ended
<1>7. CASE Spawn BY <1>7 DEF Spawn, Ended
<1>8. CASE Completed
  <2>1. state = "PLAYING" \/ ~shouldAdvance
    BY <1>8 DEF Completed, PlayInv
  <2>2. ~stopped \/ ~shouldAdvance
    BY DEF StopInv, Clean
  <2> QED BY <1>8, <2>1, <2>2 DEF Completed, Unattended, Ended
<1>9. CASE Song
  <2>1. CASE playing = "loading" BY <1>9, <2>1 DEF Song, Ended
  <2>2. CASE playing = "leaving" BY <1>9, <2>2 DEF Song, Ended, Live
  <2>3. CASE playing = "going" /\ state' = "IDLE"
    <3>1. state = "PLAYING" \/ ~shouldAdvance
      BY <2>3 DEF PlayInv
    <3>2. ~stopped \/ ~shouldAdvance
      BY DEF StopInv, Clean
    <3>3. (\E w \in Starts : Live(w)) /\ shouldAdvance => pc = "idle"
      BY DEF OwnInv, Quiet, TypeOK, MainCode
    <3>4. UNCHANGED <<shouldAdvance, wpc, pc>> /\ silent' = Unattended
      BY <1>9, <2>3 DEF Song
    <3> QED BY <3>1, <3>2, <3>3, <3>4 DEF Unattended, Ended, Live
  <2>4. CASE playing = "going" /\ state' = "ERROR" BY <1>9, <2>4 DEF Song, Ended
  <2> QED BY <1>9, <2>1, <2>2, <2>3, <2>4 DEF Song
<1>10. ASSUME NEW w \in Starts, Watcher(w) PROVE Ended'
  <2>1. Live(w) /\ pc' = pc /\ playing' = playing
    BY <1>10, WatcherMoves
  <2>2. CASE Send(w)
    <3>1. pc = "idle" /\ \A v \in Starts : ~Live(v)'
      <4>1. w = started /\ \A v \in Starts : v # w => ~Live(v)
        BY <2>1 DEF OwnInv
      <4>2. pc = "idle" /\ wpc'[w] = "done"
        BY <2>2 DEF Send, OwnInv, Deciding, Goto, TypeOK
      <4> QED BY <1>10, <4>1, <4>2, WatcherMoves DEF Live
    <3> QED BY <2>1, <3>1 DEF Ended
  <2>3. CASE Failed(w) BY <2>1, <2>3 DEF Failed, Ended
  <2>4. CASE ~Send(w) /\ ~Failed(w)
    <3>1. UNCHANGED <<state, silent>> /\ (shouldAdvance' => shouldAdvance)
      BY <1>10, <2>4 DEF Watcher, Loading, Wait, Waited, TestAdvance, TestBreak, Clear
    <3> QED BY <2>1, <3>1 DEF Ended
  <2> QED BY <2>2, <2>3, <2>4
<1>11. CASE UNCHANGED vars BY <1>11 DEF vars, Ended, Live
<1> QED
  BY <1>1, <1>2, <1>3, <1>4, <1>5, <1>6, <1>7, <1>8, <1>9, <1>10, <1>11 DEF Next, Begin, GoOn

\* A watcher that decides does so after a song that ended by itself.
LEMMA SilentStep ==
    TypeOK /\ Quiet /\ PlayInv /\ StopInv /\ OwnInv /\ WaitInv /\ SilentInv /\ [Next]_vars
        => SilentInv'
<1> SUFFICES ASSUME TypeOK, Quiet, PlayInv, StopInv, OwnInv, WaitInv, SilentInv, [Next]_vars,
                    Clean, Clean', NEW v \in Starts, SilentWatcher(v), Ended
             PROVE  SilentWatcher(v)'
  BY CleanBefore, EndedStep DEF SilentInv, Ended, SilentWatcher
<1> USE DEF flags, song, watchers, main, history
<1>1. ASSUME NEW c \in Commands, Ask(c) PROVE SilentWatcher(v)'
  BY <1>1 DEF Ask, SilentWatcher
<1>2. CASE BeginPlay \/ BeginStop \/ (BeginSelect /\ plist)
  <2>1. UNCHANGED <<wpc, playing>> /\ ~shouldAdvance' /\ (Deliver \/ (BeginSelect /\ plist))
    BY <1>2 DEF BeginPlay, BeginStop, BeginSelect
  <2>2. wpc[v] \notin Deciding
    <3>1. CASE FromWatcher(1)
      <4>1. 1 \in DOMAIN toService
        BY <2>1, TailFrom DEF Deliver, BeginSelect
      <4> QED BY <3>1, <4>1 DEF OwnInv, Live, Deciding
    <3>2. CASE ~FromWatcher(1)
      BY <2>1, <3>2, InTime DEF Clean
    <3> QED BY <3>1, <3>2
  <2> QED BY <2>1, <2>2 DEF SilentWatcher
<1>3. CASE BeginSelect /\ ~plist
  BY <1>3 DEF BeginSelect, SilentWatcher
<1>4. CASE GoOn
  <2>1. CASE Stable \/ StopSong \/ Unbreak \/ Joined
    BY <2>1 DEF Stable, StopSong, Unbreak, Joined, SilentWatcher, Quiet
  <2>2. CASE Arm
    <3>1. ~Live(v)
      BY <2>2 DEF Arm, Excuse, Clean, Live
    <3> QED BY <2>2, <3>1 DEF Arm, SilentWatcher, Live, Deciding
  <2>3. CASE Launch
    <3>1. ~Live(v)
      BY <2>3 DEF Launch, OwnInv
    <3> QED BY <2>3, <3>1 DEF Launch, SilentWatcher, Live, Deciding
  <2>4. CASE Spawn
    <3>1. wpc'[v] = wpc[v] \/ wpc'[v] = "loading"
      BY <2>4 DEF Spawn, TypeOK
    <3>2. UNCHANGED <<shouldAdvance, playing, silent>>
      BY <2>4 DEF Spawn
    <3> QED BY <3>1, <3>2 DEF SilentWatcher, Deciding
  <2> QED BY <1>4, <2>1, <2>2, <2>3, <2>4 DEF GoOn
<1>5. CASE Completed
  BY <1>5 DEF Completed, SilentWatcher
<1>6. CASE Song
  <2>1. UNCHANGED <<shouldAdvance, wpc>> /\ playing # "over"
    BY <1>6 DEF Song
  <2> QED BY <2>1 DEF SilentWatcher
<1>7. ASSUME NEW w \in Starts, Watcher(w) PROVE SilentWatcher(v)'
  <2>1. playing' = playing /\ (shouldAdvance' => shouldAdvance)
    BY <1>7, WatcherMoves DEF TypeOK
  <2>2. CASE v # w
    <3>1. ~Live(v)
      BY <1>7, <2>2, WatcherMoves DEF OwnInv
    <3>2. wpc'[v] = wpc[v]
      BY <1>7, <2>2, WatcherMoves
    <3> QED BY <3>1, <3>2 DEF SilentWatcher, Live, Deciding
  <2>3. CASE v = w
    <3>1. CASE Loading(v) \/ Wait(v)
      <4>1. wpc'[v] \in {"wait", "poll", "join"}
        BY <3>1 DEF Loading, Wait, Goto, TypeOK
      <4> QED BY <4>1 DEF SilentWatcher, Deciding
    <3>2. CASE Waited(v)
      <4>1. playing = "over" /\ wpc'[v] = "error"
        BY <3>2 DEF Waited, WaitInv, PlayInv, Over, Goto, TypeOK
      <4> QED BY <2>1, <4>1 DEF SilentWatcher, Deciding
    <3>3. CASE Failed(v)
      <4>1. wpc'[v] = "advance" /\ playing = "over" /\ Live(v) /\ silent' = silent
        BY <3>3 DEF Failed, Goto, TypeOK, Live, SilentWatcher
      <4>2. shouldAdvance' => silent
        BY <3>3, <4>1 DEF Failed, Ended
      <4> QED BY <2>1, <4>1, <4>2 DEF SilentWatcher, Deciding
    <3>4. CASE TestAdvance(v)
      <4>1. wpc'[v] = (IF shouldAdvance THEN "break" ELSE "done") /\ wpc[v] = "advance"
            /\ silent' = silent
        BY <3>4 DEF TestAdvance, Goto, TypeOK
      <4> QED BY <2>1, <4>1 DEF SilentWatcher, Deciding
    <3>5. CASE TestBreak(v) \/ Clear(v)
      <4>1. wpc'[v] \in {"done", "clear", "send"} /\ wpc[v] \in Deciding /\ silent' = silent
        BY <3>5 DEF TestBreak, Clear, Goto, TypeOK, Deciding
      <4> QED BY <2>1, <4>1 DEF SilentWatcher, Deciding
    <3>6. CASE Send(v)
      <4>1. wpc'[v] = "done"
        BY <3>6 DEF Send, Goto, TypeOK
      <4> QED BY <4>1 DEF SilentWatcher, Deciding
    <3> QED BY <1>7, <2>3, <3>1, <3>2, <3>3, <3>4, <3>5, <3>6 DEF Watcher
  <2> QED BY <2>2, <2>3
<1>8. CASE UNCHANGED vars BY <1>8 DEF vars, SilentWatcher
<1> QED BY <1>1, <1>2, <1>3, <1>4, <1>5, <1>6, <1>7, <1>8 DEF Next, Begin

\* A watcher that goes on is the last song's, that song ended by itself, and no
\* command is being handled: unless it was left behind or crossed by a command.
THEOREM GoesOnForOwnSong == Spec => []DecidesForOwnSong
<1>1. Init => IInv
  <2>1. Init => Quiet /\ StopInv /\ OwnInv /\ WaitInv
    BY DEF Init, Quiet, StopInv, OwnInv, WaitInv, Live, Deciding, FromWatcher
  <2>2. Init => PlayInv
    BY DEF Init, PlayInv
  <2>3. Init => SilentInv
    BY DEF Init, SilentInv, Live, Deciding
  <2> QED BY <2>1, <2>2, <2>3, InitTypeOK DEF IInv
<1>2. IInv /\ [Next]_vars => IInv'
  BY NextTypeOK, QuietStep, PlayStep, StopStep, OwnStep, WaitStep, SilentStep DEF IInv
<1>3. IInv => DecidesForOwnSong
  BY DEF IInv, OwnInv, SilentInv, DecidesForOwnSong, Without, Clean, Live, Deciding
<1> QED BY <1>1, <1>2, <1>3, PTL DEF Spec

----------------------------------------------------------------------------
(***************************************************************************)
(* The next song is coming.                                                *)
(*                                                                         *)
(* Here a command of the listener may cross the one of a watcher ("late"), *)
(* so that the invariants above are of no use.  What is left is that Arm   *)
(* finds every watcher of a former song gone, and that from then on both   *)
(* flags stay as it left them while the song plays.                        *)
(***************************************************************************)
Unexcused == "behind" \notin excuses /\ "doubled" \notin excuses

\* Only the last song is watched.
Watched == \A w \in Starts : Live(w) => w = started /\ pc \notin {"launch", "spawn"}

\* It is waited for as the song it is.
Waits == \A w \in Starts : /\ wpc[w] = "poll" => format = "player"
                           /\ wpc[w] = "join" => format = "thread" /\ target[w] = playThread

\* The flags on the way from one song to the next.
Armed == /\ pc \in {"join", "arm", "launch", "spawn"} => ~breakLoops
         /\ pc = "launch" => shouldAdvance
         /\ pc = "spawn" => started \in Starts

\* A stop comes from the listener.
Orders == /\ pc = "stop" /\ cmd = "stop" => stopped
          /\ pc = "stable" => cmd # "stop"
          /\ \A i \in DOMAIN toService : FromWatcher(i) => toService[i].cmd # "stop"

\* The state of a song that was neither stopped nor has ended.
Plays == /\ state = "LOADING" => playing = "loading"
         /\ state = "PLAYING" => playing = "going"

\* A song that plays for the listener will be followed.
Follows ==
    pc \in {"idle", "spawn"} /\ ~stopped /\ state \in {"LOADING", "PLAYING"} =>
        /\ shouldAdvance /\ ~breakLoops
        /\ pc = "spawn" \/ \E w \in Starts : wpc[w] \in {"loading", "wait", "poll", "join"}

\* After it the watcher goes through its tests with the flags as they are.
Coming ==
    silent =>
        /\ pc \in {"idle", "spawn"} /\ state = "IDLE"
        /\ \/ \E w \in Starts : wpc[w] \in {"clear", "send"}
           \/ /\ shouldAdvance /\ ~breakLoops
              /\ pc = "spawn" \/ \E w \in Starts : Live(w) /\ wpc[w] \notin {"clear", "send"}

FollowInv == Watched /\ Waits /\ Armed /\ Orders /\ Plays /\ Follows /\ Coming

\* No mishap is forgotten.
LEMMA UnexcusedBefore == TypeOK /\ [Next]_vars /\ Unexcused' => Unexcused
<1> SUFFICES ASSUME TypeOK, [Next]_vars, Unexcused' PROVE Unexcused
  OBVIOUS
<1>1. CASE Deliver
  <2>1. excuses \subseteq excuses'
    BY <1>1, DeliverTyped
  <2> QED BY <2>1 DEF Unexcused
<1>2. CASE BeginSelect
  <2>1. excuses \subseteq excuses'
    BY <1>2, ExcuseTyped DEF BeginSelect, TypeOK, Excuses
  <2> QED BY <2>1 DEF Unexcused
<1>3. CASE Arm
  <2>1. excuses \subseteq excuses'
    BY <1>3, ExcuseTyped DEF Arm, TypeOK, Excuses
  <2> QED BY <2>1 DEF Unexcused
<1>4. CASE ~Deliver /\ ~BeginSelect /\ ~Arm
  <2>1. excuses' = excuses
    BY <1>4, WatcherMoves
       DEF Next, Begin, GoOn, Ask, BeginPlay, BeginStop, Stable, StopSong, Unbreak,
           Joined, Launch, Spawn, Completed, Song, history, vars
  <2> QED BY <2>1 DEF Unexcused
<1> QED BY <1>1, <1>2, <1>3, <1>4

\* Of two selections the second finds its list.
LEMMA Selected ==
    ASSUME TypeOK, BeginSelect, Unexcused'
    PROVE  plist /\ pc' = "stable" /\ ~shouldAdvance' /\ ~silent' /\ ~stopped'
BY DEF BeginSelect, Unexcused

LEMMA WatchedStep == TypeOK /\ Watched /\ [Next]_vars /\ Unexcused' => Watched'
<1> SUFFICES ASSUME TypeOK, Watched, [Next]_vars, Unexcused' PROVE Watched'
  OBVIOUS
<1> USE DEF flags, song, watchers, main, history, Watched, Live
<1>1. CASE UNCHANGED <<wpc, started>> /\ (pc' \in {"launch", "spawn"} => pc' = pc)
  BY <1>1
<1>2. CASE Arm
  <2>1. \A w \in Starts : ~Live(w)
    BY <1>2 DEF Arm, Excuse, Unexcused
  <2> QED BY <1>2, <2>1 DEF Arm
<1>3. CASE Launch BY <1>3 DEF Launch
<1>4. CASE Spawn
  <2>1. \A w \in Starts : w # started => wpc'[w] = wpc[w]
    BY <1>4 DEF Spawn, TypeOK
  <2> QED BY <1>4, <2>1 DEF Spawn
<1>5. ASSUME NEW w \in Starts, Watcher(w) PROVE Watched'
  BY <1>5, WatcherMoves
<1> QED
  BY <1>1, <1>2, <1>3, <1>4, <1>5
     DEF Next, Begin, GoOn, Ask, Deliver, BeginPlay, BeginStop, BeginSelect, Stable, StopSong,
         Unbreak, Joined, Completed, Song, vars

LEMMA WaitsStep == TypeOK /\ Watched /\ Waits /\ [Next]_vars => Waits'
<1> SUFFICES ASSUME TypeOK, Watched, [Next]_vars, NEW v \in Starts,
                    wpc[v] = "poll" => format = "player",
                    wpc[v] = "join" => format = "thread" /\ target[v] = playThread
             PROVE  /\ wpc'[v] = "poll" => format' = "player"
                    /\ wpc'[v] = "join" => format' = "thread" /\ target'[v] = playThread'
  BY DEF Waits
<1> DEFINE Goal == /\ wpc'[v] = "poll" => format' = "player"
                   /\ wpc'[v] = "join" => format' = "thread" /\ target'[v] = playThread'
<1> USE DEF flags, song, watchers, main, history
<1>1. CASE UNCHANGED <<wpc, format, target, playThread>> BY <1>1
<1>2. CASE Launch
  <2>1. ~Live(v) /\ wpc' = wpc
    BY <1>2 DEF Launch, Watched
  <2> QED BY <2>1 DEF Live
<1>3. CASE Spawn BY <1>3 DEF Spawn, TypeOK
<1>4. ASSUME NEW w \in Starts, Watcher(w) PROVE Goal
  BY <1>4 DEF Watcher, Loading, Wait, Waited, Failed, TestAdvance, TestBreak, Clear, Send, Goto, TypeOK
<1> QED
  BY <1>1, <1>2, <1>3, <1>4
     DEF Next, Begin, GoOn, Ask, Deliver, BeginPlay, BeginStop, BeginSelect, Stable, StopSong,
         Unbreak, Joined, Arm, Completed, Song, vars

LEMMA ArmedStep == TypeOK /\ Watched /\ Armed /\ [Next]_vars => Armed'
<1> SUFFICES ASSUME TypeOK, Watched, Armed, [Next]_vars PROVE Armed'
  OBVIOUS
<1> USE DEF flags, song, watchers, main, history, Armed
<1>1. CASE UNCHANGED <<pc, breakLoops, shouldAdvance, started>> BY <1>1
<1>2. CASE BeginPlay \/ BeginStop \/ BeginSelect
  BY <1>2 DEF BeginPlay, BeginStop, BeginSelect, Deliver
<1>3. CASE GoOn
  <2>1. CASE Stable \/ StopSong \/ Unbreak \/ Spawn
    BY <2>1 DEF Stable, StopSong, Unbreak, Spawn
  <2>2. CASE Joined \/ Arm
    <3>1. breakLoops' = breakLoops /\ pc \in {"join", "arm"} /\ pc' \in {"idle", "arm", "launch"}
      BY <2>2 DEF Joined, Arm
    <3>2. pc' = "launch" => shouldAdvance' = TRUE
      BY <2>2 DEF Joined, Arm
    <3> QED BY <3>1, <3>2, Zenon
  <2>3. CASE Launch
    <3>1. breakLoops' = breakLoops /\ pc = "launch" /\ pc' \in {"spawn", "idle"}
      BY <2>3 DEF Launch
    <3>2. pc' = "spawn" => started' = started + 1 /\ started < MaxStarts
      BY <2>3 DEF Launch
    <3>3. started \in 0..MaxStarts /\ breakLoops \in BOOLEAN
      BY DEF TypeOK
    <3>4. pc' = "spawn" => started' \in Starts
      BY <3>2, <3>3, BoundsAssumption DEF Starts
    <3> QED BY <3>1, <3>3, <3>4
  <2> QED BY <1>3, <2>1, <2>2, <2>3 DEF GoOn
<1>4. ASSUME NEW w \in Starts, Watcher(w) PROVE Armed'
  <2>1. breakLoops' = breakLoops
    BY <1>4 DEF Watcher, Loading, Wait, Waited, Failed, TestAdvance, TestBreak, Clear, Send
  <2> QED BY <1>4, <2>1, WatcherMoves DEF Watched
<1> QED
  BY <1>1, <1>2, <1>3, <1>4 DEF Next, Begin, Ask, Completed, Song, vars

LEMMA OrdersStep == TypeOK /\ Orders /\ [Next]_vars => Orders'
<1> SUFFICES ASSUME TypeOK, Orders, [Next]_vars PROVE Orders'
  OBVIOUS
<1> DEFINE Calm(i) == FromWatcher(i) => toService[i].cmd # "stop"
<1> USE DEF flags, song, watchers, main, history
<1>0. toService \in Seq(Message)
  BY DEF TypeOK
<1>1. UNCHANGED toService => \A i \in DOMAIN toService' : Calm(i)'
  BY DEF Orders, FromWatcher
<1>2. ASSUME NEW c \in Commands, Ask(c) PROVE Orders'
  <2>1. \A i \in DOMAIN toService' :
           FromWatcher(i)' => i \in DOMAIN toService /\ FromWatcher(i)
    BY <1>2, AskFrom
  <2>2. \A i \in DOMAIN toService : toService'[i] = toService[i]
    <3>1. PICK x \in Seq(Message), y \in Seq(Message) : toService' = (toService \o x) \o y
      <4>1. [cmd |-> "stop", from |-> "activity"] \in Message /\ [cmd |-> c, from |-> "activity"] \in Message
        BY MessageTyped DEF Commands
      <4>2. PICK a \in Message, b \in Message :
               toService' = toService \o (IF c = "select" THEN <<a>> ELSE <<>>) \o <<b>>
        BY <1>2, <4>1 DEF Ask
      <4>3. (IF c = "select" THEN <<a>> ELSE <<>>) \in Seq(Message) /\ <<b>> \in Seq(Message)
        OBVIOUS
      <4>4. PICK x \in Seq(Message) : x = IF c = "select" THEN <<a>> ELSE <<>>
        BY <4>3
      <4>5. toService' = (toService \o x) \o <<b>>
        BY <4>2, <4>4
      <4> QED BY <4>3, <4>5
    <3>2. PICK q \in Seq(Message) : q = toService \o x
      <4>1. toService \o x \in Seq(Message)
        BY <1>0
      <4> QED BY <4>1
    <3>3. \A i \in DOMAIN toService : i \in DOMAIN q /\ q[i] = toService[i]
      BY <1>0, <3>2
    <3>4. \A i \in DOMAIN q : toService'[i] = q[i]
      BY <3>1, <3>2
    <3> QED BY <3>3, <3>4
  <2>3. UNCHANGED <<pc, cmd, stopped>>
    BY <1>2 DEF Ask
  <2> QED BY <2>1, <2>2, <2>3 DEF Orders
<1>3. CASE BeginPlay \/ BeginStop \/ BeginSelect
  <2>1. toService # <<>> /\ toService' = Tail(toService)
    BY <1>3 DEF BeginPlay, BeginStop, BeginSelect, Deliver
  <2>2. \A i \in DOMAIN toService' : i + 1 \in DOMAIN toService /\ toService'[i] = toService[i + 1]
    BY <1>0, <2>1, QueueTyped
  <2>3. \A i \in DOMAIN toService' : Calm(i)'
    BY <2>2 DEF Orders, FromWatcher
  <2>4. pc' = "stop" /\ cmd' = "stop" => stopped'
    <3>1. CASE BeginPlay \/ BeginSelect
      BY <3>1 DEF BeginPlay, BeginSelect, Orders
    <3>2. CASE BeginStop
      <4>1. Head(toService) = toService[1] /\ 1 \in DOMAIN toService
        BY <1>0, <2>1, QueueTyped
      <4>2. Head(toService).from # "watcher"
        BY <3>2, <4>1 DEF BeginStop, Deliver, Orders, FromWatcher
      <4> QED BY <3>2, <4>2 DEF BeginStop, Deliver
    <3> QED BY <1>3, <3>1, <3>2
  <2>5. pc' = "stable" => cmd' # "stop"
    BY <1>3 DEF BeginPlay, BeginStop, BeginSelect, Orders
  <2> QED BY <2>3, <2>4, <2>5 DEF Orders
<1>4. CASE GoOn \/ Completed \/ Song \/ UNCHANGED vars
  <2>1. UNCHANGED <<toService, cmd, stopped>>
    BY <1>4 DEF GoOn, Stable, StopSong, Unbreak, Joined, Arm, Launch, Spawn, Completed, Song, vars
  <2>2. pc' = "stop" => pc \in {"stop", "stable"}
    BY <1>4 DEF GoOn, Stable, StopSong, Unbreak, Joined, Arm, Launch, Spawn, Completed, Song, vars
  <2>3. pc' = "stable" => pc = "stable"
    BY <1>4 DEF GoOn, Stable, StopSong, Unbreak, Joined, Arm, Launch, Spawn, Completed, Song, vars
  <2> QED BY <1>1, <2>1, <2>2, <2>3 DEF Orders
<1>5. ASSUME NEW w \in Starts, Watcher(w) PROVE Orders'
  <2>1. UNCHANGED <<pc, cmd, stopped>>
    BY <1>5, WatcherMoves
  <2>2. CASE Send(w)
    <3>1. PICK c \in {"next", "play"} : toService' = Append(toService, [cmd |-> c, from |-> "watcher"])
      BY <2>2 DEF Send
    <3>2. [cmd |-> c, from |-> "watcher"] \in Message
      BY MessageTyped DEF Commands
    <3>3. PICK m \in Message : m = [cmd |-> c, from |-> "watcher"]
      BY <3>2
    <3>4. toService' = Append(toService, m) /\ m.cmd # "stop"
      BY <3>1, <3>3
    <3>5. \A i \in DOMAIN toService' :
             \/ toService'[i] = m
             \/ i \in DOMAIN toService /\ toService'[i] = toService[i]
      BY <1>0, <3>4, AppendAt
    <3>6. \A i \in DOMAIN toService' : Calm(i)'
      BY <3>4, <3>5 DEF Orders, FromWatcher
    <3> QED BY <2>1, <3>6 DEF Orders
  <2>3. CASE ~Send(w)
    BY <1>1, <1>5, <2>1, <2>3, WatcherMoves DEF Orders
  <2> QED BY <2>2, <2>3
<1> QED BY <1>2, <1>3, <1>4, <1>5 DEF Next, Begin

LEMMA PlaysStep == TypeOK /\ PlayInv /\ Plays /\ [Next]_vars => Plays'
<1> SUFFICES ASSUME TypeOK, PlayInv, Plays, [Next]_vars PROVE Plays'
  OBVIOUS
<1> USE DEF flags, song, watchers, main, history, Plays
<1>1. CASE UNCHANGED <<state, playing>> BY <1>1
<1>2. CASE StopSong BY <1>2 DEF StopSong, TypeOK
<1>3. CASE Launch BY <1>3 DEF Launch
<1>4. CASE Completed \/ Song BY <1>4 DEF Completed, Song
<1>5. ASSUME NEW w \in Starts, Failed(w) PROVE Plays'
  BY <1>5 DEF Failed
<1> QED
  BY <1>1, <1>2, <1>3, <1>4, <1>5
     DEF Next, Begin, GoOn, Ask, Deliver, BeginPlay, BeginStop, BeginSelect, Stable,
         Unbreak, Joined, Arm, Spawn, Watcher, Loading, Wait, Waited, TestAdvance, TestBreak,
         Clear, Send, vars

\* While a song plays, or nothing followed it yet, the flags are as Arm set them.
LEMMA ComingStep ==
    ASSUME TypeOK, PlayInv, Watched, Waits, Armed, Orders, Plays, Follows, Coming,
           [Next]_vars, Unexcused'
    PROVE  Follows' /\ Coming'
<1> USE DEF flags, song, watchers, main, history
<1>1. ASSUME NEW c \in Commands, Ask(c) PROVE Follows' /\ Coming'
  BY <1>1 DEF Ask, Follows, Coming, Live
<1>2. CASE BeginPlay \/ BeginStop
  BY <1>2 DEF BeginPlay, BeginStop, Deliver, Follows, Coming
<1>3. CASE BeginSelect
  BY <1>3, Selected DEF Follows, Coming
<1>4. CASE GoOn
  <2>1. CASE Stable \/ Unbreak \/ Joined \/ Arm
    <3>1. ~silent /\ silent' = silent /\ pc' \notin {"idle", "spawn"}
      BY <2>1 DEF Stable, Unbreak, Joined, Arm, Armed, Coming
    <3> QED BY <3>1 DEF Follows, Coming
  <2>2. CASE StopSong
    <3>1. ~silent /\ silent' = silent
      BY <2>2 DEF StopSong, Coming
    <3>2. pc' \in {"idle", "spawn"} => stopped'
      BY <2>2 DEF StopSong, Orders
    <3> QED BY <3>1, <3>2 DEF Follows, Coming
  <2>3. CASE Launch
    <3>1. ~silent /\ shouldAdvance /\ ~breakLoops
      BY <2>3 DEF Launch, Coming, Armed
    <3>2. silent = FALSE /\ shouldAdvance = TRUE /\ breakLoops = FALSE
      BY <3>1 DEF TypeOK
    <3>3. silent' \in {FALSE, silent} /\ breakLoops' = breakLoops
      BY <2>3 DEF Launch
    <3>4. \/ pc' = "spawn" /\ shouldAdvance' = shouldAdvance
          \/ pc' = "idle" /\ state' = "IDLE"
      BY <2>3 DEF Launch
    <3> QED BY <3>2, <3>3, <3>4 DEF Follows, Coming
  <2>4. CASE Spawn
    <3>1. started \in Starts /\ wpc'[started] = "loading"
      BY <2>4 DEF Spawn, Armed, TypeOK
    <3>2. /\ pc = "spawn" /\ pc' = "idle"
          /\ UNCHANGED <<shouldAdvance, breakLoops, state, silent, stopped>>
      BY <2>4 DEF Spawn
    <3>3. \A w \in Starts : wpc[w] \notin {"clear", "send"}
      BY <3>2 DEF Watched, Live
    <3> QED BY <3>1, <3>2, <3>3 DEF Follows, Coming, Live
  <2> QED BY <1>4, <2>1, <2>2, <2>3, <2>4 DEF GoOn
<1>5. CASE Completed \/ (Song /\ playing = "going" /\ state' = "IDLE")
  <2>1. /\ state' = "IDLE" /\ silent' = Unattended
        /\ UNCHANGED <<shouldAdvance, breakLoops, wpc, pc, stopped>>
    BY <1>5 DEF Completed, Song
  <2>2. CASE Unattended
    <3>1. /\ shouldAdvance /\ ~breakLoops /\ pc \in {"idle", "spawn"}
          /\ pc = "spawn" \/ \E w \in Starts : wpc[w] \in {"loading", "wait", "poll", "join"}
      BY <2>2 DEF Unattended, Follows
    <3> QED BY <2>1, <3>1 DEF Follows, Coming, Live
  <2>3. CASE ~Unattended
    BY <2>1, <2>3 DEF Follows, Coming
  <2> QED BY <2>2, <2>3
<1>6. CASE Song /\ ~(playing = "going" /\ state' = "IDLE")
  <2>1. UNCHANGED <<shouldAdvance, breakLoops, wpc, pc, stopped, silent>>
    BY <1>6 DEF Song
  <2>2. CASE playing = "loading"
    BY <1>6, <2>1, <2>2 DEF Song, PlayInv, Follows, Coming
  <2>3. CASE playing = "going"
    BY <1>6, <2>1, <2>3 DEF Song, PlayInv, Follows, Coming
  <2>4. CASE playing = "leaving"
    BY <1>6, <2>1, <2>4 DEF Song, Follows, Coming, Live
  <2> QED BY <1>6, <2>2, <2>3, <2>4 DEF Song
<1>7. ASSUME NEW w \in Starts, Watcher(w) PROVE Follows' /\ Coming'
  <2>1. /\ Live(w) /\ w = started /\ pc \notin {"launch", "spawn"}
        /\ \A v \in Starts : v # w => ~Live(v) /\ wpc'[v] = wpc[v]
        /\ UNCHANGED <<pc, stopped, playing, format, playThread>>
    <3>1. /\ Live(w) /\ UNCHANGED <<pc, stopped, playing, format, playThread>>
          /\ \A v \in Starts : v # w => wpc'[v] = wpc[v]
      BY <1>7, WatcherMoves
    <3> QED BY <1>7, <3>1 DEF Watched
  <2>2. breakLoops' = breakLoops /\ (state' = state \/ (state = "ERROR" /\ state' = "IDLE"))
    BY <1>7 DEF Watcher, Loading, Wait, Waited, Failed, TestAdvance, TestBreak, Clear, Send
  <2>3. wpc \in [Starts -> WatcherCode] /\ \A code : Goto(w, code) => wpc'[w] = code
    BY DEF TypeOK, Goto
  <2>4. Follows'
    <3> SUFFICES ASSUME pc \in {"idle", "spawn"}, ~stopped, state \in {"LOADING", "PLAYING"}
                 PROVE  /\ shouldAdvance' /\ ~breakLoops'
                        /\ wpc'[w] \in {"loading", "wait", "poll", "join"}
      BY <2>1, <2>2 DEF Follows
    <3>1. /\ shouldAdvance /\ ~breakLoops
          /\ wpc[w] \in {"loading", "wait", "poll", "join"}
      BY <2>1 DEF Follows, Live
    <3>2. Loading(w) \/ Wait(w) \/ Waited(w)
      BY <1>7, <3>1 DEF Watcher, Failed, TestAdvance, TestBreak, Clear, Send
    <3>3. ~Waited(w)
      BY <2>1 DEF Waited, Waits, Plays, Over
    <3> QED BY <2>2, <2>3, <3>1, <3>2, <3>3 DEF Loading, Wait
  <2>5. Coming'
    <3>1. CASE ~silent
      BY <1>7, <3>1 DEF Watcher, Loading, Wait, Waited, Failed, TestAdvance, TestBreak, Clear,
                        Send, Coming
    <3>2. CASE silent
      <4>1. /\ pc \in {"idle", "spawn"} /\ state = "IDLE"
            /\ \/ wpc[w] \in {"clear", "send"}
               \/ shouldAdvance /\ ~breakLoops /\ wpc[w] \notin {"clear", "send"}
        BY <2>1, <3>2 DEF Coming, Live
      <4>2. CASE Loading(w) \/ Wait(w) \/ Waited(w) \/ Failed(w) \/ TestAdvance(w)
        <5>1. /\ shouldAdvance' /\ ~breakLoops' /\ state' = "IDLE"
              /\ wpc'[w] \in {"wait", "poll", "join", "error", "advance", "break"}
          BY <2>2, <2>3, <4>1, <4>2 DEF Loading, Wait, Waited, Failed, TestAdvance
        <5> QED BY <2>1, <4>1, <5>1 DEF Coming, Live
      <4>3. CASE TestBreak(w) \/ Clear(w)
        <5>1. state' = "IDLE" /\ wpc'[w] \in {"clear", "send"}
          BY <2>3, <4>1, <4>3 DEF TestBreak, Clear
        <5> QED BY <2>1, <4>1, <5>1 DEF Coming
      <4>4. CASE Send(w)
        BY <4>4 DEF Send, Coming
      <4> QED BY <1>7, <4>2, <4>3, <4>4 DEF Watcher
    <3> QED BY <3>1, <3>2
  <2> QED BY <2>4, <2>5
<1>8. CASE UNCHANGED vars BY <1>8 DEF vars, Follows, Coming, Live
<1> QED BY <1>1, <1>2, <1>3, <1>4, <1>5, <1>6, <1>7, <1>8 DEF Next, Begin

FollowHeld == Unexcused => FollowInv

\* For any number of songs and broadcasts: when nothing followed a song that ended
\* by itself, the next one is on its way, unless a watcher was left behind or a
\* selection found its list taken.
THEOREM NextComes == Spec => []NextIsComing
<1>1. Init => Quiet /\ PlayInv /\ FollowHeld
  BY DEF Init, Quiet, PlayInv, FollowHeld, FollowInv, Watched, Waits, Armed, Orders, Plays,
         Follows, Coming, Live, FromWatcher
<1>2. TypeOK /\ PlayInv /\ FollowHeld /\ [Next]_vars => FollowHeld'
  BY UnexcusedBefore, WatchedStep, WaitsStep, ArmedStep, OrdersStep, PlaysStep, ComingStep
     DEF FollowHeld, FollowInv
<1>3. FollowHeld => NextIsComing
  BY DEF FollowHeld, FollowInv, Unexcused, Coming, Live, NextIsComing, Without
<1> QED BY <1>1, <1>2, <1>3, InitTypeOK, NextTypeOK, QuietStep, PlayStep, PTL DEF Spec

=============================================================================
