--------------------------- MODULE MailboxProofs ---------------------------
(***************************************************************************)
(* Proofs about Mailbox for every number of posts and every set of kinds.  *)
(***************************************************************************)
EXTENDS Mailbox, TLAPS

\* The initial state satisfies the inductive invariant.
LEMMA InitIInv == Init => IInv
  BY MaxPostsAssumption
  DEF Init, IInv, TypeOK, PcInv, SlotInv, ArgInv, Arg, NoArg, Cells, Posted,
      LastTaken, Taking, Holding

\* Every load and store of either thread preserves the inductive invariant.
LEMMA NextIInv == IInv /\ [Next]_vars => IInv'
<1> SUFFICES ASSUME IInv, [Next]_vars
             PROVE  IInv'
  OBVIOUS
<1> USE MaxPostsAssumption, KindsAssumption
    DEF IInv, TypeOK, PcInv, SlotInv, ArgInv, Arg, NoArg, Cells, Posted,
        LastTaken, Taking, Holding, slot, writer, reader
<1>1. ASSUME NEW k \in Kinds, Call(k) PROVE IInv'
  BY <1>1 DEF Call
<1>2. CASE StoreRc
  BY <1>2 DEF StoreRc, AfterStore
<1>3. CASE StoreArg
  BY <1>3 DEF StoreArg, AfterStore
<1>4. CASE TestJump
  BY <1>4 DEF TestJump, AfterCall
<1>5. CASE Scale
  <2>1. droid_arg' \in Arg /\ droid_arg'.post = tmp.post
    BY <1>5 DEF Scale
  <2>2. wpc' \in {"idle", "wait"}
    BY <1>5 DEF Scale, AfterCall
  <2>3. UNCHANGED <<droid_rc, posts, kind, wtodo, tmp, clean, reader>>
        /\ wpc = "scale"
    BY <1>5 DEF Scale
  <2>4. TypeOK'
    BY <2>1, <2>2, <2>3
  <2>5. PcInv' /\ SlotInv'
    BY <2>2, <2>3
  <2>6. ArgInv'
    BY <2>1, <2>2, <2>3
  <2>7. QED
    BY <2>4, <2>5, <2>6
<1>6. CASE Ready
  BY <1>6 DEF Ready
<1>7. ASSUME NEW c \in Cells, Load(c) PROVE IInv'
  <2>1. CASE c = "rc"
    BY <1>7, <2>1 DEF Load
  <2>2. CASE c = "arg"
    BY <1>7, <2>2 DEF Load
  <2>3. QED
    BY <2>1, <2>2
<1>8. ASSUME NEW c \in Cells, Clear(c) PROVE IInv'
  <2>1. /\ rpc = "clearing" /\ c \in rtodo
        /\ UNCHANGED <<posts, kind, wpc, wtodo, tmp, clean, seen>>
    BY <1>8 DEF Clear, AfterClear
  <2>2. \/ c = "rc" /\ droid_rc' = 0 /\ droid_arg' = droid_arg
        \/ c = "arg" /\ droid_rc' = droid_rc /\ droid_arg' = NoArg
    BY <1>8 DEF Clear, AfterClear
  <2> DEFINE a == droid_arg.post
  <2>a. a \in Int /\ seen.rc \in Int /\ got.rc \in Int /\ seen.arg.post \in Int
    OBVIOUS
  <2>b. droid_arg'.post = 0 \/ (c = "rc" /\ droid_arg'.post = a)
    BY <2>2
  <2>c. droid_rc' \in 0..MaxPosts /\ droid_arg' \in Arg
    <3>1. NoArg \in Arg /\ 0 \in 0..MaxPosts
      OBVIOUS
    <3>2. droid_rc \in 0..MaxPosts /\ droid_arg \in Arg
      OBVIOUS
    <3>3. QED
      BY ONLY <2>2, <3>1, <3>2
  <2>3. CASE rtodo = {c}
    <3>1. rtodo' = Cells /\ rpc' = "loading" /\ got' = seen /\ takes' = takes + 1
      BY <1>8, <2>3 DEF Clear, AfterClear
    <3>2. c = "rc" => "arg" \notin rtodo
      BY <2>3
    <3>3. c = "arg" => "rc" \notin rtodo
      BY <2>3
    <3>4. TypeOK' /\ PcInv'
      <4>1. TypeOK'
        BY <2>1, <2>c, <3>1
      <4>2. PcInv'
        BY <2>1, <3>1
      <4>3. QED
        BY <4>1, <4>2
    <3>5. SlotInv'
      BY <2>1, <2>2, <3>1, <3>3
    <3>6. ArgInv'
      <4>1. droid_arg'.post = 0 \/ droid_arg'.post >= got'.rc
        BY <2>1, <2>a, <2>b, <3>1, <3>2
      <4>2. "arg" \notin wtodo' => droid_arg'.post \in {0, posts'}
        BY <2>1, <2>b
      <4>3. wpc' = "scale" => tmp'.post \in {0, posts'}
        BY <2>1
      <4>4. QED
        BY <3>1, <4>1, <4>2, <4>3
    <3>7. QED
      BY <3>4, <3>5, <3>6
  <2>4. CASE rtodo # {c}
    <3>1. rtodo' = rtodo \ {c} /\ UNCHANGED <<rpc, got, takes>>
      BY <1>8, <2>4 DEF Clear, AfterClear
    <3>2. rtodo' # {}
      BY <2>1, <2>4, <3>1
    <3>3. TypeOK' /\ PcInv'
      <4>1. TypeOK'
        BY <2>1, <2>c, <3>1
      <4>2. PcInv'
        BY <2>1, <3>1, <3>2
      <4>3. QED
        BY <4>1, <4>2
    <3>4. SlotInv'
      BY <2>1, <2>2, <3>1
    <3>5. ArgInv'
      <4>1. /\ droid_arg'.post = 0 \/ droid_arg'.post >= got'.rc
            /\ "arg" \notin rtodo' =>
                  droid_arg'.post = 0 \/ droid_arg'.post >= seen'.rc
        BY <2>1, <2>a, <2>b, <3>1
      <4>2. "arg" \notin wtodo' => droid_arg'.post \in {0, posts'}
        BY <2>1, <2>b
      <4>3. wpc' = "scale" => tmp'.post \in {0, posts'}
        BY <2>1
      <4>4. seen'.arg.post = 0 \/ seen'.arg.post >= got'.rc
        BY <2>1, <3>1
      <4>5. QED
        BY <4>1, <4>2, <4>3, <4>4
    <3>6. QED
      BY <3>3, <3>4, <3>5
  <2>5. QED
    BY <2>3, <2>4
<1>9. CASE UNCHANGED vars
  BY <1>9 DEF vars
<1>10. QED
  BY <1>1, <1>2, <1>3, <1>4, <1>5, <1>6, <1>7, <1>8, <1>9
  DEF Next, Writer, Reader

\* IInv holds in every state of every behaviour.
THEOREM Inductive == Spec => []IInv
<1>1. QED
  BY InitIInv, NextIInv, PTL DEF Spec

\* Every variable has its type: each thread is at a step of its own.
THEOREM Typing == Spec => []TypeOK
<1>1. IInv => TypeOK
  BY DEF IInv
<1> QED BY <1>1, Inductive, PTL

\* The latest command, when it found the slot empty, is in it or was taken.
THEOREM NotLost == Spec => []LatestNotLost
<1>1. IInv => LatestNotLost
  BY DEF IInv, SlotInv, LatestNotLost
<1>2. QED
  BY <1>1, Inductive, PTL

\* When waitUntilReady returns, a command that found the slot empty was taken.
THEOREM ReadyIsTaken == Spec => ReadyMeansTaken
<1>1. IInv /\ [Next]_vars => [Ready /\ posts \in clean => LastTaken = posts]_vars
  <2> SUFFICES ASSUME IInv, Ready, posts \in clean
               PROVE  LastTaken = posts
    OBVIOUS
  <2>1. wtodo = {} /\ posts >= 1 /\ droid_rc = 0
    BY DEF Ready, IInv, PcInv
  <2>2. Posted = posts /\ Posted # 0 /\ Posted \in clean
    BY <2>1 DEF Posted, IInv, TypeOK
  <2>3. QED
    BY <2>1, <2>2 DEF IInv, SlotInv
<1>2. QED
  BY <1>1, Inductive, PTL DEF Spec, ReadyMeansTaken

\* Only the last step of ctl_read changes what it returned, and then the
\* command is newer and its argument no older than the one returned before.
LEMMA Returns ==
  ASSUME IInv, Next, <<got, takes>>' # <<got, takes>>
  PROVE  /\ got'.rc > got.rc
         /\ got'.arg.post = 0 \/ got'.arg.post >= got.rc
<1>1. PICK c \in Cells : Clear(c)
  BY DEF Next, Writer, Reader, Call, StoreRc, StoreArg, TestJump, Scale, Ready,
         Load, reader
<1>2. got' = seen /\ rpc = "clearing"
  BY <1>1 DEF Clear, AfterClear
<1>3. QED
  BY <1>2 DEF IInv, SlotInv, ArgInv, Taking

\* Commands are returned at most once and in the order they were posted.
THEOREM ReturnedInOrder == Spec => InOrder
<1>1. IInv /\ [Next]_vars => [got'.rc > got.rc]_<<got, takes>>
  BY Returns DEF vars, reader
<1>2. QED
  BY <1>1, Inductive, PTL DEF Spec, InOrder

\* A command is never returned with the argument of a long answered one.
THEOREM ArgumentsNotOld == Spec => ArgAge
<1>1. IInv /\ [Next]_vars =>
        [got'.arg.post = 0 \/ got'.arg.post >= got.rc]_<<got, takes>>
  BY Returns DEF vars, reader
<1>2. QED
  BY <1>1, Inductive, PTL DEF Spec, ArgAge

----------------------------------------------------------------------------
(* Mailbox implements CommandSlot                                          *)

\* The initial states correspond.
LEMMA InitRefines == Init => Slot!Init
  BY DEF Init, Slot!Init, Cells, Posted, LastTaken, Taking, Holding

\* Every step is a step of CommandSlot or leaves its variables alone.
LEMMA StepRefines == IInv /\ [Next]_vars => [Slot!Next]_(Slot!slotVars)
<1> SUFFICES ASSUME IInv, [Next]_vars
             PROVE  Slot!Next \/ UNCHANGED Slot!slotVars
  OBVIOUS
<1> USE MaxPostsAssumption
    DEF IInv, TypeOK, PcInv, SlotInv, Arg, Cells, Posted, LastTaken, Taking,
        Holding, slot, writer, reader, Slot!slotVars
<1>1. ASSUME NEW k \in Kinds, Call(k) PROVE UNCHANGED Slot!slotVars
  BY <1>1 DEF Call
<1>2. CASE StoreRc
  <2>1. Slot!Post
    BY <1>2 DEF StoreRc, AfterStore, Slot!Post
  <2>2. QED
    BY <2>1 DEF Slot!Next
<1>3. CASE StoreArg
  BY <1>3 DEF StoreArg, AfterStore
<1>4. CASE TestJump
  BY <1>4 DEF TestJump
<1>5. CASE Scale
  BY <1>5 DEF Scale
<1>6. CASE Ready
  BY <1>6 DEF Ready
<1>7. ASSUME NEW c \in Cells, Load(c)
      PROVE  Slot!Next \/ UNCHANGED Slot!slotVars
  <2>1. CASE c = "rc" /\ droid_rc # 0
    <3>1. Slot!Take
      BY <1>7, <2>1 DEF Load, Slot!Take
    <3>2. QED
      BY <3>1 DEF Slot!Next
  <2>2. CASE c = "rc" /\ droid_rc = 0
    BY <1>7, <2>2 DEF Load
  <2>3. CASE c = "arg"
    BY <1>7, <2>3 DEF Load
  <2>4. QED
    BY <2>1, <2>2, <2>3
<1>8. ASSUME NEW c \in Cells, Clear(c)
      PROVE  Slot!Next \/ UNCHANGED Slot!slotVars
  <2>1. CASE c = "rc"
    <3>1. Slot!Remove
      BY <1>8, <2>1 DEF Clear, AfterClear, Slot!Remove
    <3>2. QED
      BY <3>1 DEF Slot!Next
  <2>2. CASE c = "arg"
    BY <1>8, <2>2 DEF Clear, AfterClear
  <2>3. QED
    BY <2>1, <2>2
<1>9. CASE UNCHANGED vars
  BY <1>9 DEF vars
<1>10. QED
  BY <1>1, <1>2, <1>3, <1>4, <1>5, <1>6, <1>7, <1>8, <1>9
  DEF Next, Writer, Reader, Slot!Next

\* The commands go through the two globals as through a CommandSlot.
THEOREM Refinement == Spec => RefinesSlot
<1>1. QED
  BY InitRefines, StepRefines, Inductive, PTL DEF Spec, RefinesSlot, Slot!Spec
=============================================================================
