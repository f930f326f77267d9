------------------------------ MODULE Mailbox ------------------------------
(***************************************************************************)
(* The only channel from the Java side to a playing TiMidity song: the     *)
(* plain globals droid_rc and droid_arg.  controlTimidity (helper.c) stores *)
(* them from the application's main thread, ctl_read (droid_c.c) loads and *)
(* clears them from the play thread, and timidityReady lets the main       *)
(* thread poll for the slot being empty.  There is no lock, no atomic and  *)
(* no fence, so the two stores of each side become visible in any order    *)
(* and so do the two loads of ctl_read.                                    *)
(*                                                                         *)
(* A command is represented by its number in the order of the posts, and   *)
(* an argument by the number of the post it belongs to (0 for the literal  *)
(* 0), with a flag that says whether it was converted to samples.          *)
(***************************************************************************)
EXTENDS Integers

CONSTANTS
    MaxPosts,   \* bound on the number of commands posted
    Kinds       \* the kinds of command the main thread posts

ASSUME MaxPostsAssumption == MaxPosts \in Nat
ASSUME KindsAssumption == Kinds \subseteq {"jump", "toggle", "stop"}

VARIABLES
    droid_rc,   \* the command in the slot, 0 = RC_NONE
    droid_arg,  \* its argument
    posts,      \* number of the latest call of controlTimidity
    kind,       \* kind of that call
    wpc,        \* where the main thread is in controlTimidity / waitUntilReady
    wtodo,      \* its stores not visible yet
    tmp,        \* the argument it loaded to scale it
    rpc,        \* where the play thread is in ctl_read
    rtodo,      \* its loads, then its stores, not done yet
    seen,       \* what its loads returned
    got,        \* what ctl_read returned last
    takes,      \* how often ctl_read returned a command
    clean       \* history: the posts made while droid_rc was 0

slot == <<droid_rc, droid_arg>>
writer == <<posts, kind, wpc, wtodo, tmp, clean>>
reader == <<rpc, rtodo, seen, got, takes>>
vars == <<slot, writer, reader>>

Cells == {"rc", "arg"}
Arg == [post : 0..MaxPosts, scaled : BOOLEAN]
NoArg == [post |-> 0, scaled |-> FALSE]

TypeOK ==
    /\ droid_rc \in 0..MaxPosts
    /\ droid_arg \in Arg
    /\ posts \in 0..MaxPosts
    /\ kind \in {"jump", "toggle", "stop"}
    /\ wpc \in {"idle", "storing", "test", "scale", "wait"}
    /\ wtodo \in SUBSET Cells
    /\ tmp \in Arg
    /\ rpc \in {"loading", "clearing"}
    /\ rtodo \in SUBSET Cells
    /\ seen \in [rc : 0..MaxPosts, arg : Arg]
    /\ got \in [rc : 0..MaxPosts, arg : Arg]
    /\ takes \in Nat
    /\ clean \in SUBSET (1..MaxPosts)

Init ==
    /\ droid_rc = 0
    /\ droid_arg = NoArg
    /\ posts = 0
    /\ kind = "stop"
    /\ wpc = "idle"
    /\ wtodo = {}
    /\ tmp = NoArg
    /\ rpc = "loading"
    /\ rtodo = Cells
    /\ seen = [rc |-> 0, arg |-> NoArg]
    /\ got = [rc |-> 0, arg |-> NoArg]
    /\ takes = 0
    /\ clean = {}

----------------------------------------------------------------------------
(* The main thread                                                         *)

\* JNIHandler calls controlTimidity(k, ...).
Call(k) ==
    /\ wpc = "idle"
    /\ posts < MaxPosts
    /\ posts' = posts + 1
    /\ kind' = k
    /\ wpc' = "storing"
    /\ wtodo' = Cells
    /\ UNCHANGED <<slot, tmp, clean, reader>>

AfterStore(c) ==
    /\ wtodo' = wtodo \ {c}
    /\ wpc' = IF wtodo = {c} THEN "test" ELSE "storing"

\* (*dr_rc) = jcmd
StoreRc ==
    /\ wpc = "storing" /\ "rc" \in wtodo
    /\ droid_rc' = posts
    /\ clean' = IF droid_rc = 0 THEN clean \cup {posts} ELSE clean
    /\ AfterStore("rc")
    /\ UNCHANGED <<droid_arg, posts, kind, tmp, reader>>

\* (*dr_arg) = jcmdArg
StoreArg ==
    /\ wpc = "storing" /\ "arg" \in wtodo
    /\ droid_arg' = [post |-> posts, scaled |-> FALSE]
    /\ AfterStore("arg")
    /\ UNCHANGED <<droid_rc, posts, kind, tmp, clean, reader>>

\* Where a caller of controlTimidity goes next: seekTo waits for the slot to
\* be empty, pause does in the handlers that save or export, stop never does.
AfterCall == CASE kind = "jump" -> {"wait"}
               [] kind = "toggle" -> {"wait", "idle"}
               [] kind = "stop" -> {"idle"}

\* if ((*dr_rc) == 6): the slot is loaded again, it may have been cleared.
TestJump ==
    /\ wpc = "test"
    /\ IF droid_rc = posts /\ kind = "jump"
       THEN wpc' = "scale" /\ tmp' = droid_arg
       ELSE wpc' \in AfterCall /\ UNCHANGED tmp
    /\ UNCHANGED <<slot, posts, kind, wtodo, clean, reader>>

\* (*dr_arg) *= ...: stores the product of the value loaded above.
Scale ==
    /\ wpc = "scale"
    /\ droid_arg' = IF tmp = NoArg THEN NoArg ELSE [tmp EXCEPT !.scaled = TRUE]
    /\ wpc' \in AfterCall
    /\ UNCHANGED <<droid_rc, posts, kind, wtodo, tmp, clean, reader>>

\* Faulty variant of Ready: polls droid_arg instead of droid_rc.
ReadyOnArg ==
    /\ wpc = "wait"
    /\ droid_arg = NoArg
    /\ wpc' = "idle"
    /\ UNCHANGED <<slot, posts, kind, wtodo, tmp, clean, reader>>

\* waitUntilReady returns once timidityReady says that droid_rc is 0.
Ready ==
    /\ wpc = "wait"
    /\ droid_rc = 0
    /\ wpc' = "idle"
    /\ UNCHANGED <<slot, posts, kind, wtodo, tmp, clean, reader>>

Writer ==
    \/ \E k \in Kinds : Call(k)
    \/ StoreRc \/ StoreArg \/ TestJump \/ Scale \/ Ready

----------------------------------------------------------------------------
(* The play thread, polling the slot                                       *)

\* The load of a cell by ctl_read; when both are done an empty slot makes it
\* return RC_NONE and poll again.
Load(c) ==
    /\ rpc = "loading" /\ c \in rtodo
    /\ seen' = IF c = "rc" THEN [seen EXCEPT !.rc = droid_rc]
                           ELSE [seen EXCEPT !.arg = droid_arg]
    /\ IF rtodo # {c}
       THEN rtodo' = rtodo \ {c} /\ rpc' = "loading"
       ELSE /\ rtodo' = Cells
            /\ rpc' = IF seen'.rc = 0 THEN "loading" ELSE "clearing"
    /\ UNCHANGED <<slot, writer, got, takes>>

AfterClear(c) ==
    /\ IF rtodo # {c}
       THEN rtodo' = rtodo \ {c} /\ UNCHANGED <<rpc, got, takes>>
       ELSE /\ rtodo' = Cells
            /\ rpc' = "loading"
            /\ got' = seen
            /\ takes' = takes + 1
    /\ UNCHANGED <<seen, writer>>

\* Faulty variants of Clear: one forgets droid_rc, one forgets droid_arg, one
\* empties the whole slot with each store, one stores RC_ERROR.
ClearKeepsRc(c) ==
    /\ rpc = "clearing" /\ c \in rtodo
    /\ droid_arg' = (IF c = "arg" THEN NoArg ELSE droid_arg) /\ UNCHANGED droid_rc
    /\ AfterClear(c)

ClearKeepsArg(c) ==
    /\ rpc = "clearing" /\ c \in rtodo
    /\ droid_rc' = (IF c = "rc" THEN 0 ELSE droid_rc) /\ UNCHANGED droid_arg
    /\ AfterClear(c)

ClearBoth(c) ==
    /\ rpc = "clearing" /\ c \in rtodo
    /\ droid_rc' = 0 /\ droid_arg' = NoArg
    /\ AfterClear(c)

ClearToError(c) ==
    /\ rpc = "clearing" /\ c \in rtodo
    /\ IF c = "rc" THEN droid_rc' = -1 /\ UNCHANGED droid_arg
                   ELSE droid_arg' = NoArg /\ UNCHANGED droid_rc
    /\ AfterClear(c)

\* droid_rc = RC_NONE; droid_arg = 0; then the command is returned.
Clear(c) ==
    /\ rpc = "clearing" /\ c \in rtodo
    /\ IF c = "rc" THEN droid_rc' = 0 /\ UNCHANGED droid_arg
                   ELSE droid_arg' = NoArg /\ UNCHANGED droid_rc
    /\ AfterClear(c)

Reader == \E c \in Cells : Load(c) \/ Clear(c)

Next == Writer \/ Reader

Spec == Init /\ [][Next]_vars

\* A playing song calls ctl_read for every buffer and in a loop while it is
\* paused, and controlTimidity never blocks; nobody has to issue a command.
FairSpec ==
    /\ Spec
    /\ WF_vars(StoreRc \/ StoreArg \/ TestJump \/ Scale \/ Ready)
    /\ WF_vars(Reader)

----------------------------------------------------------------------------
(* Refinement of CommandSlot: a command is posted by StoreRc, taken by the *)
(* load of droid_rc and removed by the store of RC_NONE.                   *)

Posted == IF "rc" \in wtodo THEN posts - 1 ELSE posts

\* ctl_read has loaded a command it has not cleared yet.
Holding ==
    \/ rpc = "loading" /\ "rc" \notin rtodo /\ seen.rc # 0
    \/ rpc = "clearing" /\ "rc" \in rtodo

\* ctl_read has loaded a command it has not returned yet.
Taking == Holding \/ rpc = "clearing"

LastTaken == IF Taking THEN seen.rc ELSE got.rc

Slot == INSTANCE CommandSlot WITH
            slot <- droid_rc,
            posted <- Posted,
            safe <- (Posted = 0 \/ Posted \in clean),
            held <- IF Holding THEN seen.rc ELSE 0,
            last <- LastTaken,
            count <- IF Taking THEN takes + 1 ELSE takes

\* Whatever the interleaving of the loads and stores of controlTimidity and
\* ctl_read, the commands go through droid_rc as through a CommandSlot.
RefinesSlot == Slot!Spec

----------------------------------------------------------------------------
(* The inductive invariant behind the properties                           *)

\* The program counters and the accesses left to do agree.
PcInv ==
    /\ wpc = "storing" <=> wtodo # {}
    /\ wpc # "idle" => posts >= 1
    /\ rtodo # {}
    /\ rpc = "clearing" => seen.rc # 0

\* The slot holds the latest command or none; while ctl_read holds a command
\* the slot still has it, or one that was posted over it; otherwise the
\* command in the slot is newer than every command taken.
SlotInv ==
    /\ clean \subseteq 1..Posted
    /\ droid_rc \in {0, Posted}
    /\ LastTaken <= Posted
    /\ Taking => seen.rc > got.rc
    /\ Holding => droid_rc = seen.rc \/ (droid_rc > seen.rc /\ droid_rc \notin clean)
    /\ ~Holding /\ droid_rc # 0 => droid_rc > LastTaken
    /\ Posted \in clean => droid_rc = Posted \/ LastTaken = Posted

\* No argument older than the last command returned is left anywhere.
ArgInv ==
    /\ "arg" \notin wtodo => droid_arg.post \in {0, posts}
    /\ wpc = "scale" => tmp.post \in {0, posts}
    /\ droid_arg.post = 0 \/ droid_arg.post >= got.rc
    /\ rpc = "clearing" /\ "arg" \notin rtodo =>
          droid_arg.post = 0 \/ droid_arg.post >= seen.rc
    /\ rpc = "clearing" \/ "arg" \notin rtodo =>
          seen.arg.post = 0 \/ seen.arg.post >= got.rc

IInv == TypeOK /\ PcInv /\ SlotInv /\ ArgInv

----------------------------------------------------------------------------
(* Properties                                                              *)

\* ctl_read never returns a command twice and never an older command after a
\* newer one, although it reads and clears the slot in separate steps.
InOrder == [][got'.rc > got.rc]_<<got, takes>>

\* The promise seekTo relies on: when waitUntilReady returns for a command
\* that found the slot empty, ctl_read has loaded that command; the slot was
\* not emptied by the end of an earlier ctl_read.
ReadyMeansTaken == [][Ready /\ posts \in clean => LastTaken = posts]_vars

\* A command that found the slot empty and is the latest one is in the slot
\* or was taken: it cannot be lost between the two threads.
LatestNotLost ==
    Posted \in clean => droid_rc = Posted \/ LastTaken = Posted

\* The tearing is bounded: ctl_read returns a command with the argument 0 or
\* with one posted no earlier than the command it returned before, so a seek
\* never goes to the position of a seek that was answered long ago.
ArgAge ==
    [][got'.arg.post = 0 \/ got'.arg.post >= got.rc]_<<got, takes>>

\* waitUntilReady, which runs on the application's main thread, returns as
\* long as a song keeps polling.
WaitEnds == wpc = "wait" ~> wpc = "idle"
============================================================================
