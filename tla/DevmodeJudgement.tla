-------------------------- MODULE DevmodeJudgement --------------------------
(* The judgement of blocks by the devmode engine and the validator together:*)
(* no block is forgotten, each takes the steps of BlockJudgement in turn,   *)
(* and publishing keeps up with the chain head.                             *)
EXTENDS DevmodeProofs

(* What is in a queue, and how often.                                       *)

In(s, e)   == \E i \in DOMAIN s : s[i] = e
Once(s, e) == \A i, j \in DOMAIN s : s[i] = e /\ s[j] = e => i = j
IsSeq(s)   == \E S : s \in Seq(S)

\* Taking the first element of a queue.
LEMMA TailIn ==
    ASSUME NEW s, IsSeq(s), s # <<>>
    PROVE  /\ IsSeq(Tail(s))
           /\ \A e : In(s, e) <=> e = Head(s) \/ In(Tail(s), e)
           /\ \A e : Once(s, e) => Once(Tail(s), e)
           /\ Once(s, Head(s)) => ~In(Tail(s), Head(s))
<1>1. PICK S : s \in Seq(S)
  BY DEF IsSeq
<1> DEFINE t == Tail(s)
<1>2. /\ t \in Seq(S) /\ Head(s) = s[1] /\ 1 \in DOMAIN s
      /\ \A i \in DOMAIN t : i \in Nat /\ i + 1 \in DOMAIN s /\ t[i] = s[i + 1] /\ i + 1 # 1
      /\ \A i \in DOMAIN s : i = 1 \/ (i - 1 \in DOMAIN t /\ t[i - 1] = s[i])
  BY <1>1
<1> HIDE DEF t
<1>3. IsSeq(t)
  BY <1>2, Zenon DEF IsSeq
<1>4. \A e : In(s, e) <=> e = Head(s) \/ In(t, e)
  BY <1>2 DEF In
<1>5. \A e : Once(s, e) => Once(t, e)
  <2> SUFFICES ASSUME NEW e, Once(s, e), NEW i \in DOMAIN t, NEW j \in DOMAIN t,
                      t[i] = e, t[j] = e
               PROVE  i = j
    BY DEF Once
  <2>1. i + 1 = j + 1
    BY <1>2 DEF Once
  <2> QED BY <1>2, <2>1
<1>6. Once(s, Head(s)) => ~In(t, Head(s))
  BY <1>2 DEF Once, In
<1> QED BY <1>3, <1>4, <1>5, <1>6 DEF t

\* Adding an element to a queue.
LEMMA AppendIn ==
    ASSUME NEW s, IsSeq(s), NEW e
    PROVE  /\ IsSeq(Append(s, e))
           /\ \A x : In(Append(s, e), x) <=> x = e \/ In(s, x)
           /\ \A x : Once(s, x) /\ (x # e \/ ~In(s, x)) => Once(Append(s, e), x)
<1>1. PICK S : s \in Seq(S)
  BY DEF IsSeq
<1> DEFINE t == Append(s, e)
<1>2. /\ t \in Seq(S \cup {e})
      /\ DOMAIN t = DOMAIN s \cup {Len(s) + 1}
      /\ \A i \in DOMAIN s : t[i] = s[i]
      /\ t[Len(s) + 1] = e
  BY <1>1, AppendFacts
<1> HIDE DEF t
<1>3. IsSeq(t)
  BY <1>2, Zenon DEF IsSeq
<1>4. \A x : In(t, x) <=> x = e \/ In(s, x)
  BY <1>2 DEF In
<1>5. \A x : Once(s, x) /\ (x # e \/ ~In(s, x)) => Once(t, x)
  BY <1>2 DEF Once, In
<1> QED BY <1>3, <1>4, <1>5 DEF t

\* Updates are told apart by type and content.
LEMMA UpdateFields ==
    ASSUME NEW s, NEW x, NEW t, NEW y
    PROVE  Update(s, x) = Update(t, y) <=> s = t /\ x = y
BY DEF Update
-----------------------------------------------------------------------------
(* The fate of each block.                                                  *)

New(id)   == Update("BlockNew", id)
Valid(id) == Update("BlockValid", id)
Is(v, id, fate) == id \in DOMAIN v /\ v[id] = fate
Panics == {"panic", "panicInvalidMessage"}

\* Updates about valid blocks, and ordered commits, are about blocks that are
\* just that, and there is one for each.
Told(v, u) == \A x : In(u, Valid(x)) => Is(v, x, "valid") /\ Once(u, Valid(x))
Committing(v, c) == \A x : In(c, x) => Is(v, x, "committing") /\ Once(c, x)

\* The block in hand is at the same stage, and no update about it is left.
Hand(at, id, b, v, u) ==
    /\ at \in Weighed => Is(v, id, "valid") /\ ~In(u, Valid(id))
    /\ at = "FailBlock" => ~b[id].good /\ b[id].num > 0

\* A block that is not judged is with somebody.
Remembered(at, id, b, v, u, c) ==
    at \notin Panics => \A x \in DOMAIN b : b[x].num > 0 =>
        /\ v[x] = "new" => In(u, New(x)) \/ (at \in Received /\ id = x)
        /\ v[x] = "valid" => In(u, Valid(x)) \/ (at \in Weighed /\ id = x)
        /\ v[x] = "committing" => In(c, x)

\* Blocks are built on the first block of the chain and those above it; other
\* genesis blocks stay unjudged.
Root(b, id) == id = Chain[1] \/ b[id].num > 0
Rooted(b, v, k) ==
    /\ Chain[1] \in DOMAIN b
    /\ \A x \in DOMAIN b : b[x].num = 0 => v[x] = IF x = Chain[1] THEN "committed" ELSE "new"
    /\ \A x \in DOMAIN b : b[x].num > 0 => Root(b, b[x].previousId)
    /\ k # BLOCK_ID_NULL => Root(b, k)

FateInv ==
    /\ IsSeq(updates) /\ IsSeq(commits)
    /\ Told(verdict, updates)
    /\ Committing(verdict, commits)
    /\ Hand(pc, block, blocks, verdict, updates)
    /\ Remembered(pc, block, blocks, verdict, updates, commits)
    /\ Rooted(blocks, verdict, candidate)

\* The height of a block of the initial chain is its position.
LEMMA InitHeights ==
    ASSUME Init, NEW k \in DOMAIN Chain
    PROVE  blocks[Chain[k]].num = k - 1
<1> DEFINE B(i) == [previousId |-> IF i = 1 THEN BLOCK_ID_NULL ELSE Chain[i - 1],
                    num |-> i - 1, good |-> i > 1]
           at(id) == CHOOSE i \in DOMAIN Chain : Chain[i] = id
<1>1. blocks = [id \in ChainIds |-> B(at(id))]
  BY Zenon DEF Init
<1>2. Chain[k] \in ChainIds /\ at(Chain[k]) = k
  BY ChainIndex DEF ChainIds
<1> HIDE DEF at
<1>3. B(k).num = k - 1
  OBVIOUS
<1> HIDE DEF B
<1> QED BY <1>1, <1>2, <1>3

\* FateInv holds at the start.
LEMMA InitFate == Init => FateInv
<1> SUFFICES ASSUME Init PROVE FateInv
  OBVIOUS
<1>1. JudgeInv
  BY InitJudge
<1>2. /\ pc = "GetSettings" /\ updates = <<>> /\ commits = <<>> /\ candidate = BLOCK_ID_NULL
      /\ DOMAIN blocks = ChainIds /\ verdict = [id \in ChainIds |-> "committed"]
  BY DEF Init
<1>3. IsSeq(updates) /\ IsSeq(commits)
  BY <1>2, SMTT(30) DEF IsSeq
<1>4. Told(verdict, updates) /\ Committing(verdict, commits)
  BY <1>2 DEF Told, Committing, In
<1>5. Hand(pc, block, blocks, verdict, updates)
  BY <1>2 DEF Hand, Weighed
<1>6. Remembered(pc, block, blocks, verdict, updates, commits)
  BY <1>2 DEF Remembered
<1>7. ASSUME NEW x \in DOMAIN blocks, blocks[x].num = 0 PROVE x = Chain[1]
  <2>1. PICK k \in DOMAIN Chain : x = Chain[k]
    BY <1>2 DEF ChainIds
  <2>2. k - 1 = 0 /\ k \in Nat
    BY <1>7, <2>1, InitHeights, DevmodeAssumption, SMTT(30)
  <2> QED BY <2>1, <2>2
<1>8. Rooted(blocks, verdict, candidate)
  <2>1. Tree(blocks)
    BY <1>1 DEF JudgeInv
  <2>2. ASSUME NEW x \in DOMAIN blocks, blocks[x].num > 0
        PROVE  Root(blocks, blocks[x].previousId)
    <3>1. blocks[x].previousId \in DOMAIN blocks
      BY <2>1, <2>2 DEF Tree, Block
    <3>2. blocks[blocks[x].previousId].num \in Nat
      BY <2>1, <3>1 DEF Tree, Block
    <3> QED BY <1>7, <3>1, <3>2, SMTT(30) DEF Root
  <2>3. Chain[1] \in DOMAIN blocks
    BY <1>2, DevmodeAssumption, SMTT(30) DEF ChainIds
  <2> QED BY <1>2, <1>7, <2>2, <2>3, Zenon DEF Rooted
<1> QED BY <1>3, <1>4, <1>5, <1>6, <1>8 DEF FateInv
-----------------------------------------------------------------------------
(* The steps, by what they do to the judgement of blocks.                   *)

\* A call or a tick that leaves the judgement alone; a block in hand stays in
\* hand unless the engine stops.
Quiet ==
    /\ pc \notin Panics
    /\ UNCHANGED <<blocks, verdict, head, commits, updates>>
    /\ candidate' \in {candidate, head, BLOCK_ID_NULL}
    /\ \/ pc' \in Panics
       \/ pc \notin Received \cup Weighed /\ pc' \notin Received \cup Weighed
       \/ pc \in Weighed /\ pc' \in Weighed /\ block' = block

\* An update is taken; one about a block goes to its handler.
Taken ==
    \E type, next, id :
        /\ Take(type, next, id)
        /\ \/ type \notin {"BlockNew", "BlockValid"} /\ next \notin Received \cup Weighed
           \/ type = "BlockNew" /\ next = "select" /\ blocks[id].num = 0
           \/ type = "BlockNew" /\ next = "CheckBlocks" /\ block' = id
           \/ /\ type = "BlockNew" /\ next = "FailBlock" /\ block' = id
              /\ ~blocks[id].good /\ blocks[id].num > 0
           \/ type = "BlockValid" /\ next = "GetBlock" /\ block' = id

\* A directive arrives.
Directives == {<<"CheckBlocks", "checking">>, <<"FailBlock", "failed">>,
               <<"CommitBlock", "committing">>, <<"IgnoreBlock", "ignored">>}
Recording ==
    \E d \in Directives :
        /\ pc = d[1] /\ pc' = "select"
        /\ verdict' = [verdict EXCEPT ![block] = d[2]]
        /\ commits' = IF d[2] = "committing" THEN Append(commits, block) ELSE commits
        /\ UNCHANGED <<blocks, head, candidate, updates>>

\* A block is added to the tree and announced.
Joining ==
    \E id \in Free : \E r :
        /\ Fits(blocks, r)
        /\ r.num > 0 => Root(blocks, r.previousId)
        /\ blocks' = With(blocks, id, r) /\ verdict' = With(verdict, id, "new")
        /\ updates' = Append(updates, New(id))
        /\ UNCHANGED <<head, commits>>
        /\ candidate' \in {candidate, BLOCK_ID_NULL}
        /\ \/ pc \notin Received \cup Weighed \cup Panics /\ pc' \notin Received \cup Weighed
           \/ pc' = pc /\ block' = block


\* What a step of each kind shows of the judgement: FateInv goes on, and the
\* block takes a step of BlockJudgement or none does.
FateStep == FateInv' /\ (Fates!Next \/ UNCHANGED <<blocks, verdict, head>>)

\* A block that is valid, ignored, committing or committed is on the first block
\* of the chain, or is that block.
LEMMA PassedRoot ==
    ASSUME JudgeInv, FateInv, NEW id, HasPassed(verdict, id)
    PROVE  Root(blocks, id)
<1>1. id \in DOMAIN blocks /\ verdict[id] # "new"
  BY DEF JudgeInv, Judgement, HasPassed, Passed
<1>2. blocks[id].num \in Nat
  BY <1>1 DEF JudgeInv, Tree, Block
<1> QED BY <1>1, <1>2 DEF FateInv, Rooted, Root

\* FateInv over a step that leaves the judgement alone.
LEMMA QuietFate == JudgeInv /\ FateInv /\ Quiet => FateStep
<1> SUFFICES ASSUME JudgeInv, FateInv, Quiet PROVE FateStep
  OBVIOUS
<1>1. UNCHANGED <<blocks, verdict, head, commits, updates>> /\ pc \notin Panics
  BY DEF Quiet
<1>2. Received \cap Weighed = {} /\ Panics \cap (Received \cup Weighed) = {}
  BY DEF Received, Weighed, Panics
<1>3. Hand(pc', block', blocks, verdict, updates)
  <2>1. "FailBlock" \in Received
    BY DEF Received
  <2> QED BY <1>2, <2>1 DEF Quiet, FateInv, Hand
<1>4. Remembered(pc', block', blocks, verdict, updates, commits)
  BY <1>1, <1>2 DEF Quiet, FateInv, Remembered
<1>5. Rooted(blocks, verdict, candidate')
  <2>1. Root(blocks, head)
    BY PassedRoot DEF JudgeInv
  <2> QED BY <2>1 DEF Quiet, FateInv, Rooted
<1>6. FateInv'
  BY <1>1, <1>3, <1>4, <1>5, ZenonT(30) DEF FateInv
<1> QED BY <1>1, <1>6 DEF FateStep

\* FateInv over taking an update.
LEMMA TakenFate == FateInv /\ Taken => FateStep
<1> SUFFICES ASSUME FateInv, Taken PROVE FateStep
  OBVIOUS
<1>1. PICK type, next, id :
        /\ Take(type, next, id)
        /\ \/ type \notin {"BlockNew", "BlockValid"} /\ next \notin Received \cup Weighed
           \/ type = "BlockNew" /\ next = "select" /\ blocks[id].num = 0
           \/ type = "BlockNew" /\ next = "CheckBlocks" /\ block' = id
           \/ /\ type = "BlockNew" /\ next = "FailBlock" /\ block' = id
              /\ ~blocks[id].good /\ blocks[id].num > 0
           \/ type = "BlockValid" /\ next = "GetBlock" /\ block' = id
  BY Zenon DEF Taken
<1> DEFINE u == updates'
<1>2. /\ pc = "select" /\ pc' = next /\ updates # <<>>
      /\ Head(updates) = Update(type, id) /\ u = Tail(updates)
      /\ UNCHANGED <<blocks, verdict, head, candidate, commits>>
  BY <1>1, Zenon DEF Take
<1> HIDE DEF u
<1>3. /\ IsSeq(u)
      /\ \A e : In(updates, e) <=> e = Update(type, id) \/ In(u, e)
      /\ \A e : Once(updates, e) => Once(u, e)
      /\ Once(updates, Update(type, id)) => ~In(u, Update(type, id))
  BY <1>2, TailIn DEF FateInv
<1>4. Told(verdict, u)
  BY <1>3, Zenon DEF FateInv, Told
<1>5. type = "BlockValid" => Is(verdict, id, "valid") /\ ~In(u, Valid(id))
  BY <1>3, Zenon DEF FateInv, Told, Valid
<1>6. Hand(pc', block', blocks, verdict, u)
  BY <1>1, <1>2, <1>5 DEF Hand, Received, Weighed
<1>7. Remembered(pc', block', blocks, verdict, u, commits)
  <2> SUFFICES ASSUME NEW x \in DOMAIN blocks, blocks[x].num > 0
               PROVE  /\ verdict[x] = "new" => In(u, New(x)) \/ (pc' \in Received /\ block' = x)
                      /\ verdict[x] = "valid" => In(u, Valid(x)) \/ (pc' \in Weighed /\ block' = x)
                      /\ verdict[x] = "committing" => In(commits, x)
    BY DEF Remembered
  <2>1. /\ verdict[x] = "new" => In(updates, New(x))
        /\ verdict[x] = "valid" => In(updates, Valid(x))
        /\ verdict[x] = "committing" => In(commits, x)
    BY <1>2, Zenon DEF FateInv, Remembered, Panics, Received, Weighed
  <2>2. ASSUME New(x) = Update(type, id) PROVE pc' \in Received /\ block' = x
    <3>1. type = "BlockNew" /\ id = x
      BY <2>2, UpdateFields, SMTT(30) DEF New
    <3> QED BY <1>1, <1>2, <3>1 DEF Received
  <2>3. ASSUME Valid(x) = Update(type, id) PROVE pc' \in Weighed /\ block' = x
    <3>1. type = "BlockValid" /\ id = x
      BY <2>3, UpdateFields DEF Valid
    <3> QED BY <1>1, <1>2, <3>1 DEF Weighed
  <2> QED BY <1>3, <2>1, <2>2, <2>3, Zenon
<1>8. FateInv'
  BY <1>2, <1>3, <1>4, <1>6, <1>7 DEF FateInv, u
<1> QED BY <1>2, <1>8 DEF FateStep

\* A verdict that moves on is a move of BlockJudgement.
LEMMA VerdictMoves ==
    ASSUME JudgeInv, NEW id \in DOMAIN verdict, NEW to,
           verdict' = [verdict EXCEPT ![id] = to]
    PROVE  /\ id \in Ids
           /\ Fates!Moves(id, verdict[id], to)
<1>1. DOMAIN verdict \subseteq Ids
  BY DEF JudgeInv, Judgement, Tree
<1>2. DOMAIN verdict' = DOMAIN verdict /\ verdict'[id] = to
      /\ \A x \in DOMAIN verdict : x # id => verdict'[x] = verdict[x]
  BY SMTT(30)
<1> QED BY <1>1, <1>2 DEF Fates!Moves

\* The verdict on one block moves; what is known of the others stays.
LEMMA OthersStay ==
    ASSUME FateInv, NEW id \in DOMAIN verdict, NEW r, NEW v,
           v = [verdict EXCEPT ![id] = r],
           verdict[id] = "valid" => ~In(updates, Valid(id)),
           verdict[id] = "committing" => ~In(commits, id)
    PROVE  Told(v, updates) /\ Committing(v, commits)
<1>1. \A x, f : Is(verdict, x, f) /\ x # id => Is(v, x, f)
  BY DEF Is
<1>2. \A x : In(updates, Valid(x)) => x # id
  BY SMTT(30) DEF FateInv, Told, Is
<1>3. \A x : In(commits, x) => x # id
  BY SMTT(30) DEF FateInv, Committing, Is
<1> QED BY <1>1, <1>2, <1>3, Zenon DEF FateInv, Told, Committing

\* The root facts as the verdict on a block above a genesis block moves.
LEMMA RootedMoves ==
    ASSUME FateInv, JudgeInv, NEW id \in DOMAIN blocks, NEW r, NEW v,
           v = [verdict EXCEPT ![id] = r], verdict[id] \notin {"new", "committed"} \/ blocks[id].num > 0,
           NEW k, k \in {candidate, BLOCK_ID_NULL}
    PROVE  Rooted(blocks, v, k)
<1>1. blocks[id].num # 0
  BY DEF FateInv, Rooted
<1>2. \A x \in DOMAIN blocks : x # id => v[x] = verdict[x]
  BY DEF JudgeInv, Judgement
<1> QED BY <1>1, <1>2 DEF FateInv, Rooted

\* FateInv over a directive.
LEMMA RecordingFate == JudgeInv /\ FateInv /\ Recording => FateStep
<1> SUFFICES ASSUME JudgeInv, FateInv, Recording PROVE FateStep
  OBVIOUS
<1>1. PICK d \in Directives :
        /\ pc = d[1] /\ pc' = "select"
        /\ verdict' = [verdict EXCEPT ![block] = d[2]]
        /\ commits' = IF d[2] = "committing" THEN Append(commits, block) ELSE commits
  BY Zenon DEF Recording
<1>2. UNCHANGED <<blocks, head, candidate, updates>>
  BY Zenon DEF Recording
<1> DEFINE to == d[2]  v == verdict'  c == commits'
<1>3. \/ pc = "CheckBlocks" /\ to = "checking"
      \/ pc = "FailBlock" /\ to = "failed"
      \/ pc = "CommitBlock" /\ to = "committing"
      \/ pc = "IgnoreBlock" /\ to = "ignored"
  BY <1>1 DEF Directives
<1> HIDE DEF to, v, c
<1>4. v = [verdict EXCEPT ![block] = to] /\ c = IF to = "committing" THEN Append(commits, block) ELSE commits
  BY <1>1 DEF to, v, c
<1>5. /\ block \in DOMAIN verdict /\ DOMAIN verdict = DOMAIN blocks
      /\ \/ pc = "CheckBlocks" /\ verdict[block] = "new" /\ blocks[block].good
            /\ blocks[block].num > 0
         \/ pc = "FailBlock" /\ verdict[block] = "new" /\ ~blocks[block].good
            /\ blocks[block].num > 0
         \/ pc \in {"CommitBlock", "IgnoreBlock"} /\ verdict[block] = "valid"
            /\ ~In(updates, Valid(block))
  <2>1. DOMAIN verdict = DOMAIN blocks /\ InHandOK(pc, block, blocks, verdict, updates)
    BY DEF JudgeInv, Judgement
  <2>2. Hand(pc, block, blocks, verdict, updates)
    BY Zenon DEF FateInv
  <2> QED BY <1>3, <2>1, <2>2, Zenon DEF InHandOK, Hand, IsNew, Is, Received, Weighed
<1>6. ~In(commits, block)
  BY <1>5, SMTT(30) DEF FateInv, Committing, Is
<1>7. Told(v, updates) /\ Committing(v, commits)
  BY <1>4, <1>5, <1>6, OthersStay, Zenon
<1>8. IsSeq(commits) /\ IsSeq(updates)
  BY DEF FateInv
<1>9. IsSeq(c) /\ Committing(v, c)
  <2>1. CASE to # "committing"
    BY <1>4, <1>7, <1>8, <2>1, Zenon
  <2>2. CASE to = "committing"
    <3>1. c = Append(commits, block) /\ Is(v, block, "committing")
      BY <1>4, <1>5, <2>2 DEF Is
    <3>2. /\ IsSeq(c)
          /\ \A x : In(c, x) <=> x = block \/ In(commits, x)
          /\ \A x : Once(commits, x) /\ (x # block \/ ~In(commits, x)) => Once(c, x)
      BY <1>8, <3>1, AppendIn
    <3>3. Once(commits, block)
      BY <1>6 DEF In, Once
    <3> QED BY <1>6, <1>7, <3>1, <3>2, <3>3, Zenon DEF Committing
  <2> QED BY <2>1, <2>2, Zenon
<1>10. Rooted(blocks, v, candidate)
  <2>1. verdict[block] \notin {"new", "committed"} \/ blocks[block].num > 0
    BY <1>5
  <2> QED BY <1>4, <1>5, <2>1, RootedMoves, Zenon
<1>11. Hand(pc', block', blocks, v, updates)
  BY <1>1 DEF Hand, Weighed
<1>12. Remembered(pc', block', blocks, v, updates, c)
  <2> SUFFICES ASSUME NEW x \in DOMAIN blocks, blocks[x].num > 0
               PROVE  /\ v[x] = "new" => In(updates, New(x))
                      /\ v[x] = "valid" => In(updates, Valid(x))
                      /\ v[x] = "committing" => In(c, x)
    BY DEF Remembered
  <2>1. CASE x = block
    <3>1. v[x] = to
      BY <1>4, <1>5, <2>1, Zenon
    <3>2. to = "committing" => In(c, block)
      BY <1>4, <1>8, AppendIn
    <3> QED BY <1>3, <2>1, <3>1, <3>2, Zenon
  <2>2. CASE x # block
    <3>1. v[x] = verdict[x]
      BY <1>4, <1>5, <2>2, ZenonT(30)
    <3>2. /\ verdict[x] = "new" => In(updates, New(x))
          /\ verdict[x] = "valid" => In(updates, Valid(x))
          /\ verdict[x] = "committing" => In(commits, x)
      BY <1>3, <2>2 DEF FateInv, Remembered, Panics
    <3>3. In(commits, x) => In(c, x)
      BY <1>4, <1>8, AppendIn, SMTT(30)
    <3> QED BY <3>1, <3>2, <3>3
  <2> QED BY <2>1, <2>2
<1>13. FateInv'
  BY <1>2, <1>7, <1>8, <1>9, <1>10, <1>11, <1>12, ZenonT(30) DEF FateInv, v, c
<1>14. Fates!Next
  <2>1. PICK id \in DOMAIN verdict : id = block
    BY <1>5, Zenon
  <2>2. verdict' = [verdict EXCEPT ![id] = to]
    BY <1>4, <2>1, Zenon DEF v
  <2>3. id \in Ids /\ Fates!Moves(id, verdict[id], to)
    BY <2>2, VerdictMoves, Zenon
  <2>4. UNCHANGED <<{x \in DOMAIN blocks : blocks[x].good}, head>>
    BY <1>2
  <2>5. CASE pc = "CheckBlocks"
    <3>1. Fates!Check(id)
      BY <1>3, <1>5, <2>1, <2>3, <2>4, <2>5, ZenonT(30) DEF Fates!Check
    <3> QED BY <2>3, <3>1, Zenon DEF Fates!Next
  <2>6. CASE pc = "FailBlock"
    <3>1. Fates!Fail(id)
      BY <1>3, <1>5, <2>1, <2>3, <2>4, <2>6 DEF Fates!Fail
    <3> QED BY <2>3, <3>1, Zenon DEF Fates!Next
  <2>7. CASE pc \in {"CommitBlock", "IgnoreBlock"}
    <3>1. Fates!Choose(id)
      BY <1>3, <1>5, <2>1, <2>3, <2>4, <2>7, ZenonT(30) DEF Fates!Choose
    <3> QED BY <2>3, <3>1, Zenon DEF Fates!Next
  <2> QED BY <1>3, <2>5, <2>6, <2>7, Zenon
<1> QED BY <1>13, <1>14 DEF FateStep

\* FateInv over a block that joins the tree.
LEMMA JoiningFate == JudgeInv /\ FateInv /\ Joining => FateStep
<1> SUFFICES ASSUME JudgeInv, FateInv, Joining PROVE FateStep
  OBVIOUS
<1> DEFINE J(id, r) == /\ Fits(blocks, r)
                       /\ r.num > 0 => Root(blocks, r.previousId)
                       /\ blocks' = With(blocks, id, r) /\ verdict' = With(verdict, id, "new")
                       /\ updates' = Append(updates, New(id))
<1>0. PICK id \in Free : \E r : J(id, r)
  BY Zenon DEF Joining
<1>1. PICK r : J(id, r)
  BY <1>0, Zenon
<1>2. /\ UNCHANGED <<head, commits>> /\ candidate' \in {candidate, BLOCK_ID_NULL}
      /\ \/ pc \notin Received \cup Weighed \cup Panics /\ pc' \notin Received \cup Weighed
         \/ pc' = pc /\ block' = block
  BY Zenon DEF Joining
<1> DEFINE b == blocks'  v == verdict'  u == updates'
<1>3. b = With(blocks, id, r) /\ v = With(verdict, id, "new") /\ u = Append(updates, New(id))
  BY <1>1
<1> HIDE DEF b, v, u
<1>4. Tree(blocks) /\ Judgement(blocks, verdict) /\ Builds(candidate, blocks)
  BY DEF JudgeInv
<1>5. Joined(b, v, id) /\ b[id] = r
  <2>1. Joined(b, v, id)
    BY <1>1, <1>3, <1>4, NewBlock, Zenon
  <2> QED BY <1>3, <2>1, Zenon DEF With
<1>6. DOMAIN verdict = DOMAIN blocks
  BY <1>4 DEF Judgement
<1>7. \A x, f : Is(verdict, x, f) => Is(v, x, f)
  BY <1>5, <1>6 DEF Is, Joined
<1>8. /\ IsSeq(u)
      /\ \A x : In(u, x) <=> x = New(id) \/ In(updates, x)
      /\ \A x : Once(updates, x) /\ (x # New(id) \/ ~In(updates, x)) => Once(u, x)
  BY <1>3, AppendIn DEF FateInv
<1>9. \A x : Valid(x) # New(id)
  BY UpdateFields DEF New, Valid
<1>10. Told(v, u)
  BY <1>7, <1>8, <1>9, Zenon DEF FateInv, Told
<1>11. Committing(v, commits)
  BY <1>7, Zenon DEF FateInv, Committing
<1>12. Hand(pc', block', b, v, u)
  <2>1. CASE pc' \notin Received \cup Weighed
    BY <2>1 DEF Hand, Received, Weighed
  <2>2. CASE pc' = pc /\ block' = block
    <3>1. Hand(pc, block, blocks, verdict, updates)
      BY DEF FateInv
    <3>2. pc = "FailBlock" => block \in DOMAIN blocks
      BY <1>6 DEF JudgeInv, InHandOK, IsNew, Received
    <3>3. pc = "FailBlock" => ~b[block].good /\ b[block].num > 0
      BY <1>5, <3>1, <3>2 DEF Joined, Hand
    <3>4. pc \in Weighed => Is(v, block, "valid") /\ ~In(u, Valid(block))
      BY <1>7, <1>8, <1>9, <3>1, Zenon DEF Hand
    <3> QED BY <2>2, <3>3, <3>4 DEF Hand
  <2> QED BY <1>2, <2>1, <2>2, ZenonT(30)
<1>13. Remembered(pc', block', b, v, u, commits)
  <2> SUFFICES ASSUME pc' \notin Panics, NEW x \in DOMAIN b, b[x].num > 0
               PROVE  /\ v[x] = "new" => In(u, New(x)) \/ (pc' \in Received /\ block' = x)
                      /\ v[x] = "valid" => In(u, Valid(x)) \/ (pc' \in Weighed /\ block' = x)
                      /\ v[x] = "committing" => In(commits, x)
    BY DEF Remembered
  <2>1. CASE x = id
    BY <1>5, <1>8, <2>1, Zenon DEF Joined
  <2>2. CASE x # id
    <3>1. x \in DOMAIN blocks /\ b[x] = blocks[x] /\ v[x] = verdict[x]
      BY <1>5, <2>2 DEF Joined
    <3>2. pc \notin Panics
      BY <1>2, Zenon
    <3>3. /\ verdict[x] = "new" => In(updates, New(x)) \/ (pc \in Received /\ block = x)
          /\ verdict[x] = "valid" => In(updates, Valid(x)) \/ (pc \in Weighed /\ block = x)
          /\ verdict[x] = "committing" => In(commits, x)
      BY <3>1, <3>2, Zenon DEF FateInv, Remembered
    <3> QED BY <1>2, <1>8, <3>1, <3>3, Zenon
  <2> QED BY <2>1, <2>2
<1>14. Rooted(b, v, candidate')
  <2>1. Rooted(blocks, verdict, candidate)
    BY DEF FateInv
  <2>2. \A x \in DOMAIN blocks : Root(blocks, x) => Root(b, x)
    BY <1>5 DEF Joined, Root
  <2>3. id # Chain[1] /\ Chain[1] \in DOMAIN b
    BY <1>5, <2>1 DEF Rooted, Joined
  <2>4. ASSUME NEW x \in DOMAIN b, b[x].num = 0
        PROVE  v[x] = IF x = Chain[1] THEN "committed" ELSE "new"
    BY <1>5, <2>1, <2>3, <2>4 DEF Rooted, Joined
  <2>5. ASSUME NEW x \in DOMAIN b, b[x].num > 0 PROVE Root(b, b[x].previousId)
    <3>1. CASE x = id
      <4>1. r.previousId \in DOMAIN blocks
        BY <1>1, <1>5, <2>5, <3>1, SMTT(30) DEF Fits, Block
      <4> QED BY <1>1, <1>5, <2>2, <2>5, <3>1, <4>1, ZenonT(30)
    <3>2. CASE x # id
      <4>1. x \in DOMAIN blocks /\ b[x] = blocks[x]
        BY <1>5, <3>2 DEF Joined
      <4>2. blocks[x].previousId \in DOMAIN blocks
        BY <1>4, <2>5, <4>1, SMTT(30) DEF Tree, Block
      <4> QED BY <2>1, <2>2, <2>5, <4>1, <4>2, Zenon DEF Rooted
    <3> QED BY <3>1, <3>2
  <2>6. candidate' # BLOCK_ID_NULL => Root(b, candidate')
    BY <1>2, <1>4, <2>1, <2>2 DEF Rooted, Builds
  <2> QED BY <2>3, <2>4, <2>5, <2>6, Zenon DEF Rooted
<1>15. FateInv'
  BY <1>2, <1>8, <1>10, <1>11, <1>12, <1>13, <1>14, ZenonT(30) DEF FateInv, b, v, u
<1>16. Fates!Arrive(id)
  <2>1. id \in Ids /\ id \notin DOMAIN verdict /\ DOMAIN v = DOMAIN verdict \cup {id}
        /\ v[id] = "new" /\ \A x \in DOMAIN verdict : v[x] = verdict[x]
    BY <1>5, <1>6 DEF Free, Joined
  <2>2. Fates!Moves(id, "unknown", "new")
    BY <2>1, Zenon DEF Fates!Moves, v
  <2>3. {x \in DOMAIN b : b[x].good} \in
          {{x \in DOMAIN blocks : blocks[x].good},
           {x \in DOMAIN blocks : blocks[x].good} \cup {id}}
    BY <1>5 DEF Joined
  <2> QED BY <1>2, <2>2, <2>3 DEF Fates!Arrive, b
<1>17. Fates!Next
  BY <1>16, Zenon DEF Fates!Next, Free
<1> QED BY <1>15, <1>17 DEF FateStep

\* FateInv over the arrival of a message.
LEMMA MessageFate == FateInv /\ Message => FateStep
<1> SUFFICES ASSUME FateInv, Message PROVE FateStep
  OBVIOUS
<1>1. PICK type : updates' = Append(updates, Update("PeerMessage", type))
  BY Zenon DEF Message, Announce
<1>2. UNCHANGED <<pc, block, blocks, verdict, head, candidate, commits>>
  BY Zenon DEF Message, handled
<1> DEFINE e == Update("PeerMessage", type)
           u == updates'
<1>3. u = Append(updates, e) /\ \A x : Valid(x) # e
  BY <1>1, UpdateFields DEF Valid
<1> HIDE DEF e, u
<1>4. /\ IsSeq(u)
      /\ \A x : In(u, x) <=> x = e \/ In(updates, x)
      /\ \A x : Once(updates, x) /\ (x # e \/ ~In(updates, x)) => Once(u, x)
  BY <1>3, AppendIn DEF FateInv
<1>5. Told(verdict, u)
  BY <1>3, <1>4, Zenon DEF FateInv, Told
<1>6. Hand(pc, block, blocks, verdict, u)
  BY <1>3, <1>4, Zenon DEF FateInv, Hand
<1>7. Remembered(pc, block, blocks, verdict, u, commits)
  BY <1>4, Zenon DEF FateInv, Remembered
<1>8. FateInv'
  BY <1>2, <1>4, <1>5, <1>6, <1>7 DEF FateInv, u
<1> QED BY <1>2, <1>8 DEF FateStep

\* FateInv over the validation of a block.
LEMMA ValidateFate == JudgeInv /\ FateInv /\ Validate => FateStep
<1> SUFFICES ASSUME JudgeInv, FateInv, Validate PROVE FateStep
  OBVIOUS
<1> DEFINE E(id, result) == Update(IF result = "valid" THEN "BlockValid" ELSE "BlockInvalid", id)
<1>1. PICK id \in DOMAIN blocks, result \in {"valid", "invalid"} :
         /\ verdict[id] = "checking"
         /\ verdict' = [verdict EXCEPT ![id] = result]
         /\ updates' = Append(updates, E(id, result))
  BY Zenon DEF Validate, Announce
<1>2. UNCHANGED <<pc, block, blocks, head, candidate, commits>>
  BY Zenon DEF Validate, handled
<1> DEFINE e == E(id, result)
           u == updates'
           v == verdict'
<1>3. /\ u = Append(updates, e) /\ v = [verdict EXCEPT ![id] = result]
      /\ \A x : Valid(x) = e <=> x = id /\ result = "valid"
  BY <1>1, UpdateFields, SMTT(30) DEF Valid
<1> HIDE DEF e, u, v, E
<1>4. DOMAIN verdict = DOMAIN blocks /\ DOMAIN v = DOMAIN blocks /\ v[id] = result
      /\ \A x \in DOMAIN blocks : x # id => v[x] = verdict[x]
  BY <1>3 DEF JudgeInv, Judgement
<1>5. Told(v, updates) /\ Committing(v, commits)
  BY <1>1, <1>3, <1>4, OthersStay, Zenon
<1>6. /\ IsSeq(u)
      /\ \A x : In(u, x) <=> x = e \/ In(updates, x)
      /\ \A x : Once(updates, x) /\ (x # e \/ ~In(updates, x)) => Once(u, x)
  BY <1>3, AppendIn DEF FateInv
<1>7. ~In(updates, Valid(id)) /\ Once(updates, Valid(id))
  BY <1>1, Zenon DEF FateInv, Told, Is, In, Once
<1>8. result = "valid" => Is(v, id, "valid")
  BY <1>4 DEF Is
<1>9. Told(v, u)
  <2> SUFFICES ASSUME NEW x, In(u, Valid(x)) PROVE Is(v, x, "valid") /\ Once(u, Valid(x))
    BY DEF Told
  <2>1. CASE x = id
    <3>1. Valid(x) = e /\ result = "valid"
      BY <1>3, <1>6, <1>7, <2>1, Zenon
    <3> QED BY <1>6, <1>7, <1>8, <2>1, <3>1, Zenon
  <2>2. CASE x # id
    <3>1. Valid(x) # e /\ In(updates, Valid(x))
      BY <1>3, <1>6, <2>2, Zenon
    <3> QED BY <1>5, <1>6, <3>1 DEF Told
  <2> QED BY <2>1, <2>2
<1>10. Hand(pc, block, blocks, v, u)
  <2>1. pc \in Weighed => Is(verdict, block, "valid") /\ ~In(updates, Valid(block))
    BY DEF FateInv, Hand
  <2>2. pc \in Weighed => block # id /\ Is(v, block, "valid")
    BY <1>1, <1>4, <2>1, Zenon DEF Is
  <2>3. pc \in Weighed => ~In(u, Valid(block))
    BY <1>3, <1>6, <2>1, <2>2, Zenon
  <2>4. pc = "FailBlock" => ~blocks[block].good /\ blocks[block].num > 0
    BY DEF FateInv, Hand
  <2> QED BY <2>2, <2>3, <2>4, Zenon DEF Hand
<1>11. Remembered(pc, block, blocks, v, u, commits)
  <2> SUFFICES ASSUME pc \notin Panics, NEW x \in DOMAIN blocks, blocks[x].num > 0
               PROVE  /\ v[x] = "new" => In(u, New(x)) \/ (pc \in Received /\ block = x)
                      /\ v[x] = "valid" => In(u, Valid(x)) \/ (pc \in Weighed /\ block = x)
                      /\ v[x] = "committing" => In(commits, x)
    BY DEF Remembered
  <2>1. CASE x = id
    BY <1>1, <1>3, <1>4, <1>6, <2>1, Zenon
  <2>2. CASE x # id
    <3>1. /\ verdict[x] = "new" => In(updates, New(x)) \/ (pc \in Received /\ block = x)
          /\ verdict[x] = "valid" => In(updates, Valid(x)) \/ (pc \in Weighed /\ block = x)
          /\ verdict[x] = "committing" => In(commits, x)
      BY DEF FateInv, Remembered
    <3> QED BY <1>4, <1>6, <2>2, <3>1, Zenon
  <2> QED BY <2>1, <2>2, Zenon
<1>12. Rooted(blocks, v, candidate)
  BY <1>1, <1>3, RootedMoves, Zenon
<1>13. FateInv'
  BY <1>2, <1>5, <1>6, <1>9, <1>10, <1>11, <1>12, ZenonT(30) DEF FateInv, u, v
<1>14. id \in Ids /\ Fates!Moves(id, "checking", result)
  BY <1>1, <1>4, VerdictMoves, Zenon
<1>15. UNCHANGED <<{x \in DOMAIN blocks : blocks[x].good}, head>>
  BY <1>2
<1>16. Fates!Validate(id)
  BY <1>14, <1>15 DEF Fates!Validate
<1>17. Fates!Next
  BY <1>14, <1>16, Zenon DEF Fates!Next
<1> QED BY <1>13, <1>17 DEF FateStep

\* FateInv over a commit.
LEMMA CommitFate == JudgeInv /\ FateInv /\ Commit => FateStep
<1> SUFFICES ASSUME JudgeInv, FateInv, Commit PROVE FateStep
  OBVIOUS
<1>1. PICK id : id = Head(commits)
  OBVIOUS
<1> DEFINE e == Update("BlockCommit", id)
           u == updates'
           v == verdict'
           c == commits'
<1>2. /\ commits # <<>> /\ head' = id /\ c = Tail(commits)
      /\ v = [verdict EXCEPT ![id] = "committed"] /\ u = Append(updates, e)
      /\ candidate' \in {candidate, BLOCK_ID_NULL}
  BY <1>1, Zenon DEF Commit, Announce
<1>3. UNCHANGED <<pc, block, blocks>>
  BY Zenon DEF Commit, handled
<1>4. \A x : Valid(x) # e
  BY UpdateFields DEF Valid
<1> HIDE DEF e, u, v, c
<1>5. /\ IsSeq(c)
      /\ \A x : In(commits, x) <=> x = id \/ In(c, x)
      /\ \A x : Once(commits, x) => Once(c, x)
      /\ Once(commits, id) => ~In(c, id)
  BY <1>1, <1>2, TailIn DEF FateInv
<1>6. Is(verdict, id, "committing") /\ ~In(c, id)
  BY <1>5, ZenonT(30) DEF FateInv, Committing
<1>7. /\ DOMAIN verdict = DOMAIN blocks /\ id \in DOMAIN blocks /\ DOMAIN v = DOMAIN blocks
      /\ verdict[id] = "committing" /\ v[id] = "committed"
      /\ \A x \in DOMAIN blocks : x # id => v[x] = verdict[x]
  BY <1>2, <1>6 DEF JudgeInv, Judgement, Is
<1>8. \A x, f : Is(verdict, x, f) /\ x # id => Is(v, x, f)
  BY <1>7 DEF Is
<1>9. Committing(v, c)
  BY <1>5, <1>6, <1>8 DEF FateInv, Committing
<1>10. Told(v, updates)
  <2>1. \A x : In(updates, Valid(x)) => x # id
    BY <1>7 DEF FateInv, Told, Is
  <2> QED BY <1>8, <2>1, Zenon DEF FateInv, Told
<1>11. /\ IsSeq(u)
       /\ \A x : In(u, x) <=> x = e \/ In(updates, x)
       /\ \A x : Once(updates, x) /\ (x # e \/ ~In(updates, x)) => Once(u, x)
  BY <1>2, AppendIn DEF FateInv
<1>12. Told(v, u)
  BY <1>4, <1>10, <1>11, Zenon DEF Told
<1>13. Hand(pc, block, blocks, v, u)
  <2>1. pc \in Weighed => Is(verdict, block, "valid") /\ ~In(updates, Valid(block))
    BY Zenon DEF FateInv, Hand
  <2>2. pc \in Weighed => Is(v, block, "valid") /\ ~In(u, Valid(block))
    BY <1>4, <1>7, <1>11, <2>1, ZenonT(30) DEF Is
  <2>3. pc = "FailBlock" => ~blocks[block].good /\ blocks[block].num > 0
    BY ZenonT(30) DEF FateInv, Hand
  <2> QED BY <2>2, <2>3, Zenon DEF Hand
<1>14. Remembered(pc, block, blocks, v, u, c)
  <2> SUFFICES ASSUME pc \notin Panics, NEW x \in DOMAIN blocks, blocks[x].num > 0
               PROVE  /\ v[x] = "new" => In(u, New(x)) \/ (pc \in Received /\ block = x)
                      /\ v[x] = "valid" => In(u, Valid(x)) \/ (pc \in Weighed /\ block = x)
                      /\ v[x] = "committing" => In(c, x)
    BY DEF Remembered
  <2>1. CASE x = id
    BY <1>7, <2>1, Zenon
  <2>2. CASE x # id
    <3>1. /\ verdict[x] = "new" => In(updates, New(x)) \/ (pc \in Received /\ block = x)
          /\ verdict[x] = "valid" => In(updates, Valid(x)) \/ (pc \in Weighed /\ block = x)
          /\ verdict[x] = "committing" => In(commits, x)
      BY DEF FateInv, Remembered
    <3> QED BY <1>5, <1>7, <1>11, <2>2, <3>1, Zenon
  <2> QED BY <2>1, <2>2
<1>15. Rooted(blocks, v, candidate')
  BY <1>2, <1>7, RootedMoves, Zenon
<1>16. FateInv'
  BY <1>3, <1>5, <1>9, <1>11, <1>12, <1>13, <1>14, <1>15, ZenonT(30) DEF FateInv, u, v, c
<1>17. id \in Ids /\ Fates!Moves(id, "committing", "committed")
  <2>1. verdict' = [verdict EXCEPT ![id] = "committed"]
    BY <1>2 DEF v
  <2> QED BY <1>7, <2>1, VerdictMoves, Zenon
<1>18. UNCHANGED {x \in DOMAIN blocks : blocks[x].good}
  BY <1>3, ZenonT(30)
<1>19. Fates!Commit(id)
  BY <1>2, <1>17, <1>18 DEF Fates!Commit
<1>20. Fates!Next
  BY <1>17, <1>19, Zenon DEF Fates!Next
<1> QED BY <1>16, <1>20 DEF FateStep

\* The errors of the directives: every reply but OK makes the wrappers panic.
LEMMA DirectiveErrors ==
    ASSUME NEW call \in {"CheckBlocks", "FailBlock", "CommitBlock", "IgnoreBlock"},
           NEW status \in {"SERVICE_ERROR", "lost"}
    PROVE  ServiceError(call, status) # NoError
<1>1. "SERVICE_ERROR" \notin TypedStatuses(call)
  BY DEF TypedStatuses, PeerCalls, CandidateCalls, DirectiveCalls
<1> QED BY <1>1 DEF ServiceError, NoError

\* A directive arrives, or the engine stops.
LEMMA DirectiveKind ==
    ASSUME NEW call, NEW recorded, Directive(call, recorded),
           <<call, recorded>> \in Directives
    PROVE  Recording \/ Quiet
<1>1. PICK status \in Replies("OK") :
        /\ Must(call, call, "OK", status, "select")
        /\ verdict' = IF status = "OK" THEN [verdict EXCEPT ![block] = recorded] ELSE verdict
        /\ commits' = IF status = "OK" /\ recorded = "committing"
                      THEN Append(commits, block) ELSE commits
  BY Zenon DEF Directive
<1>2. UNCHANGED <<blocks, head, candidate, updates>>
  BY Zenon DEF Directive
<1>3. call \in {"CheckBlocks", "FailBlock", "CommitBlock", "IgnoreBlock"}
  BY DEF Directives
<1>4. /\ pc = call
      /\ pc' = IF ServiceError(call, status) = NoError THEN "select" ELSE "panic"
  BY <1>1, Zenon DEF Must
<1>5. CASE status = "OK"
  <2>1. pc' = "select"
    BY <1>4, <1>5 DEF ServiceError
  <2>2. \E d \in Directives : d = <<call, recorded>>
    BY Zenon
  <2> QED BY <1>1, <1>2, <1>4, <1>5, <2>1, <2>2, Zenon DEF Recording
<1>6. CASE status # "OK"
  <2>1. status \in {"SERVICE_ERROR", "lost"}
    BY <1>1, <1>6 DEF Replies
  <2>2. pc' = "panic"
    BY <1>3, <1>4, <2>1, DirectiveErrors, ZenonT(30)
  <2>3. verdict' = verdict /\ commits' = commits
    BY <1>1, <1>6
  <2> QED BY <1>2, <1>3, <1>4, <2>2, <2>3, ZenonT(30) DEF Quiet, Panics
<1> QED BY <1>5, <1>6

\* Going from one call to the next.
LEMMA AskKind ==
    ASSUME NEW STATE step, NEW call, NEW STATE next, Ask(step, call, next), step \notin Panics,
           \/ step \notin Received \cup Weighed /\ next \notin Received \cup Weighed
           \/ step \in Weighed /\ next \in Weighed /\ block' = block
    PROVE  Quiet
<1>1. /\ pc = step /\ pc' \in {next, "panic"}
      /\ UNCHANGED <<blocks, verdict, head, candidate, commits, updates>>
  BY AskPc
<1>2. "panic" \in Panics
  BY DEF Panics
<1> QED BY <1>1, <1>2 DEF Quiet

\* What each step of the engine is.
LEMMA EngineKind == JudgeInv /\ FateInv /\ Engine => Quiet \/ Taken \/ Recording \/ Joining
<1> SUFFICES ASSUME JudgeInv, FateInv, Engine PROVE Quiet \/ Taken \/ Recording \/ Joining
  OBVIOUS
<1> DEFINE same == UNCHANGED <<blocks, verdict, head, commits, updates>>
           Other == {"select", "GetSettings", "InitializeBlock", "SummarizeBlock",
                     "FinalizeBlock", "Broadcast", "SendAck", "CancelBlock"}
<1>0. /\ \A x \in Other : x \notin Received \cup Weighed \cup Panics
      /\ "panic" \in Panics /\ "panicInvalidMessage" \in Panics
      /\ \A x \in Panics : x \notin Received \cup Weighed
  BY DEF Received, Weighed, Panics
<1>1. ASSUME same, candidate' \in {candidate, head, BLOCK_ID_NULL}, pc \in Other,
             pc' \in Other \cup {"panic"}
      PROVE  Quiet
  BY <1>0, <1>1 DEF Quiet
<1>2. CASE startWait
  BY <1>1, <1>2, Zenon DEF startWait, validator
<1>3. CASE initializeBlock
  <2>1. /\ same /\ candidate' \in {candidate, head}
        /\ pc = "InitializeBlock" /\ pc' \in {"select", "panic"}
    BY <1>3 DEF initializeBlock, Must
  <2> QED BY <1>1, <2>1
<1>4. CASE timerExpires
  BY <1>1, <1>4, Zenon DEF timerExpires, validator
<1>5. CASE summarizeBlock
  BY <1>1, <1>5, Zenon DEF summarizeBlock, NotReady, validator
<1>6. CASE finalizeBlock
  <2>1. pc = "FinalizeBlock" /\ pc' \in {"FinalizeBlock", "Broadcast"}
    BY <1>6, Zenon DEF finalizeBlock, NotReady
  <2>2. CASE UNCHANGED validator
    BY <1>1, <2>1, <2>2, Zenon DEF validator
  <2>3. CASE ~UNCHANGED validator
    <3>1. PICK id \in Free : candidate # BLOCK_ID_NULL /\ Signed(id)
      BY <1>6, <2>3, SMTT(30) DEF finalizeBlock, NotReady
    <3> DEFINE r == [previousId |-> candidate, num |-> blocks[candidate].num + 1,
                     good |-> summary]
    <3>2. candidate \in DOMAIN blocks /\ summary \in BOOLEAN /\ Root(blocks, candidate)
      BY <3>1, Zenon DEF JudgeInv, Builds, FateInv, Rooted
    <3>3. blocks[candidate] \in Block /\ candidate \in Nat
      BY <3>2, DevmodeAssumption, SMTT(30) DEF JudgeInv, Tree
    <3>4. blocks[candidate].num + 1 \in Nat
      BY <3>3 DEF Block
    <3>5. r \in Block
      BY <3>2, <3>3, <3>4, ZenonT(30) DEF Block
    <3>6. Fits(blocks, r) /\ r.previousId = candidate
      BY <3>2, <3>5 DEF Fits
    <3>7. /\ blocks' = With(blocks, id, r) /\ verdict' = With(verdict, id, "new")
          /\ updates' = Append(updates, New(id))
          /\ UNCHANGED <<head, commits>> /\ candidate' = BLOCK_ID_NULL
      BY <3>1, Zenon DEF Signed, New
    <3> HIDE DEF r
    <3> QED BY <1>0, <2>1, <3>2, <3>6, <3>7, ZenonT(30) DEF Joining
  <2> QED BY <2>2, <2>3
<1>7. CASE broadcastPublishedBlock
  <2>1. same /\ candidate' = candidate
    BY <1>7, Zenon DEF broadcastPublishedBlock, validator
  <2>2. pc = "Broadcast" /\ pc' \in {"select", "panic"}
    BY <1>7 DEF broadcastPublishedBlock, Must
  <2> QED BY <1>1, <2>1, <2>2
<1>8. CASE ignoreUpdate
  <2>1. PICK id : Take("BlockInvalid", "select", id)
    BY <1>8, Zenon DEF ignoreUpdate
  <2> QED BY <1>0, <2>1, Zenon DEF Taken
<1>9. CASE HandlePeerMessage
  <2>1. PICK next \in {"select", "SendAck", "panicInvalidMessage"},
             id \in MessageTypes \cup {"published", "ack", "received"} :
           Take("PeerMessage", next, id)
    BY <1>9, Zenon DEF HandlePeerMessage
  <2>2. next \notin Received \cup Weighed
    BY <1>0
  <2> QED BY <2>1, <2>2, Zenon DEF Taken
<1>10. CASE sendBlockAck
  BY <1>0, <1>10, AskKind DEF sendBlockAck
<1>11. CASE HandleBlockNew
  <2>1. PICK id \in DOMAIN blocks :
           \/ blocks[id].previousId = BLOCK_ID_NULL /\ Take("BlockNew", "select", id)
           \/ /\ blocks[id].previousId # BLOCK_ID_NULL /\ block' = id
              /\ Take("BlockNew", IF checkConsensus(id) THEN "CheckBlocks" ELSE "FailBlock", id)
    BY <1>11, Zenon DEF HandleBlockNew, InHand
  <2>2. blocks[id].num \in Nat /\ (blocks[id].num = 0 <=> blocks[id].previousId = BLOCK_ID_NULL)
    <3>1. Tree(blocks) /\ 0 \notin DOMAIN blocks
      BY DevmodeAssumption DEF JudgeInv, Tree
    <3> QED BY <3>1, SMTT(30) DEF Tree, Block, BLOCK_ID_NULL
  <2>3. CASE blocks[id].previousId = BLOCK_ID_NULL /\ Take("BlockNew", "select", id)
    BY <2>2, <2>3, Zenon DEF Taken
  <2>4. CASE /\ blocks[id].previousId # BLOCK_ID_NULL /\ block' = id
             /\ Take("BlockNew", IF checkConsensus(id) THEN "CheckBlocks" ELSE "FailBlock", id)
    <3>1. CASE checkConsensus(id)
      <4>1. Take("BlockNew", "CheckBlocks", id)
        BY <2>4, <3>1
      <4> QED BY <2>4, <4>1, Zenon DEF Taken
    <3>2. CASE ~checkConsensus(id)
      <4>1. Take("BlockNew", "FailBlock", id) /\ ~blocks[id].good
        BY <2>4, <3>2 DEF checkConsensus
      <4>2. blocks[id].num > 0
        BY <2>2, <2>4
      <4> QED BY <2>4, <4>1, <4>2, Zenon DEF Taken
    <3> QED BY <3>1, <3>2, ZenonT(30)
  <2> QED BY <2>1, <2>3, <2>4
<1>12. CASE checkBlock \/ failBlock \/ commitBlock \/ ignoreBlock
  BY <1>12, DirectiveKind DEF checkBlock, failBlock, commitBlock, ignoreBlock, Directives
<1>13. CASE HandleBlockValid
  BY <1>13, Zenon DEF HandleBlockValid, InHand, Taken
<1>14. CASE sendBlockReceived
  <2>1. PICK call : Ask("GetBlock", call, "GetChainHead") /\ block' = block
    BY <1>14, Zenon DEF sendBlockReceived, handled
  <2> QED BY <2>1, AskKind DEF Weighed, Panics
<1>15. CASE getChainHead
  <2>1. Compared(head) \in {"CommitBlock", "GetChainBlock", "IgnoreBlock"}
    BY DEF Compared
  <2>2. Ask("GetChainHead", "GetChainHead", Compared(head)) /\ block' = block
    BY <1>15, Zenon DEF getChainHead
  <2>3. Compared(head) \in Weighed /\ "GetChainHead" \in Weighed /\ "GetChainHead" \notin Panics
    BY <2>1 DEF Weighed, Panics
  <2> QED BY <2>2, <2>3, AskKind
<1>16. CASE getChainBlock
  <2> DEFINE next == Walked(blocks[chainBlock].previousId)
  <2>1. next \in {"CommitBlock", "GetChainBlock", "IgnoreBlock"}
    BY DEF Walked
  <2>2. Ask("GetChainBlock", "GetBlocks", next) /\ block' = block
    BY <1>16, Zenon DEF getChainBlock
  <2>3. next \in Weighed /\ "GetChainBlock" \in Weighed /\ "GetChainBlock" \notin Panics
    BY <2>1 DEF Weighed, Panics
  <2> HIDE DEF next
  <2> QED BY <2>2, <2>3, AskKind
<1>17. CASE HandleBlockCommit
  <2>1. PICK id : Take("BlockCommit", "CancelBlock", id)
    BY <1>17, Zenon DEF HandleBlockCommit
  <2> QED BY <1>0, <2>1, Zenon DEF Taken
<1>18. CASE cancelBlock
  <2>1. same /\ candidate' \in {candidate, BLOCK_ID_NULL} /\ pc = "CancelBlock"
        /\ pc' \in {"GetSettings", "panic"}
    BY <1>18 DEF cancelBlock
  <2> QED BY <1>1, <2>1
<1> QED
  BY <1>2, <1>3, <1>4, <1>5, <1>6, <1>7, <1>8, <1>9, <1>10, <1>11, <1>12, <1>13,
     <1>14, <1>15, <1>16, <1>17, <1>18, Zenon DEF Engine

\* The arrival of a block of a peer.
LEMMA PeerKind == JudgeInv /\ PeerBlock => Joining
<1> SUFFICES ASSUME JudgeInv, PeerBlock PROVE Joining
  OBVIOUS
<1> DEFINE R(p, g) == [previousId |-> p, good |-> g,
                       num |-> IF p = BLOCK_ID_NULL THEN 0 ELSE blocks[p].num + 1]
<1>1. PICK id \in Free, good \in BOOLEAN,
           previous \in {b \in DOMAIN blocks : b = Chain[1] \/ blocks[b].num > 0} \cup {BLOCK_ID_NULL} :
         /\ blocks' = With(blocks, id, R(previous, good))
         /\ verdict' = With(verdict, id, "new")
         /\ updates' = Append(updates, New(id))
  BY Zenon DEF PeerBlock, Announce, New
<1>2. UNCHANGED <<pc, block, head, candidate, commits>>
  BY Zenon DEF PeerBlock, handled
<1> DEFINE r == R(previous, good)
<1>3. Fits(blocks, r) /\ (r.num > 0 => Root(blocks, r.previousId))
  <2>1. CASE previous = BLOCK_ID_NULL
    BY <2>1, SMTT(30) DEF Fits, Block, BLOCK_ID_NULL
  <2>2. CASE previous # BLOCK_ID_NULL
    <3>1. previous \in DOMAIN blocks
      BY <2>2
    <3>2. blocks[previous] \in Block /\ previous \in Nat
      BY <3>1, DevmodeAssumption DEF JudgeInv, Tree
    <3>3. blocks[previous].num + 1 \in Nat
      BY <3>2 DEF Block
    <3> QED BY <2>2, <3>1, <3>2, <3>3 DEF Fits, Block, Root
  <2> QED BY <2>1, <2>2, ZenonT(30)
<1> HIDE DEF R
<1> QED BY <1>1, <1>2, <1>3, Zenon DEF Joining

\* FateInv and the moves of BlockJudgement, over every step.
LEMMA NextFate == JudgeInv /\ FateInv /\ [Next]_vars => FateStep
<1> SUFFICES ASSUME JudgeInv, FateInv, [Next]_vars PROVE FateStep
  OBVIOUS
<1>1. CASE Engine
  BY <1>1, EngineKind, QuietFate, TakenFate, RecordingFate, JoiningFate, Zenon
<1>2. CASE PeerBlock
  BY <1>2, PeerKind, JoiningFate, Zenon
<1>3. CASE Message \/ Validate \/ Commit
  BY <1>3, MessageFate, ValidateFate, CommitFate, Zenon
<1>4. CASE UNCHANGED vars
  BY <1>4 DEF vars, handled, validator, FateInv, FateStep
<1> QED BY <1>1, <1>2, <1>3, <1>4, Zenon DEF Next

\* FateInv holds in every reachable state.
LEMMA FateInvariant == Spec => []FateInv
<1>1. JudgeInv /\ FateInv /\ [Next]_vars => FateInv'
  BY NextFate DEF FateStep
<1> QED BY <1>1, InitFate, JudgeInvariant, PTL DEF Spec

\* No block that is not judged is forgotten: HandleBlockNew and HandleBlockValid
\* answer each update by one directive, the validator announces each result once,
\* and a block that is being checked waits for a block of which the same is true.
THEOREM BlocksRemembered == Spec => []NoBlockForgotten
<1>1. JudgeInv /\ FateInv => NoBlockForgotten
  <2> SUFFICES ASSUME JudgeInv, FateInv, Running, NEW id \in Ids, Arrived(id)
               PROVE  /\ verdict[id] = "new" =>
                            Queued("BlockNew", id) \/ InHandAt({"CheckBlocks", "FailBlock"}, id)
                      /\ verdict[id] = "checking" =>
                            LET previous == blocks[id].previousId IN
                            Arrived(previous) \/ verdict[previous] \in Judged
                      /\ verdict[id] = "valid" =>
                            \/ Queued("BlockValid", id)
                            \/ InHandAt({"GetBlock", "GetChainHead", "GetChainBlock",
                                         "CommitBlock", "IgnoreBlock"}, id)
                      /\ verdict[id] = "committing" => \E i \in DOMAIN commits : commits[i] = id
    BY DEF NoBlockForgotten
  <2>1. id \in DOMAIN blocks /\ blocks[id].previousId # BLOCK_ID_NULL
    BY DEF Arrived
  <2>2. Tree(blocks) /\ 0 \notin DOMAIN blocks
    BY DevmodeAssumption DEF JudgeInv, Tree
  <2>3. \A x \in DOMAIN blocks : blocks[x].num \in Nat
    BY <2>2 DEF Tree, Block
  <2>4. \A x \in DOMAIN blocks : blocks[x].num = 0 <=> blocks[x].previousId = BLOCK_ID_NULL
    BY <2>2, <2>3 DEF Tree, BLOCK_ID_NULL
  <2>5. blocks[id].num > 0 /\ pc \notin Panics
    BY <2>1, <2>3, <2>4, SMTT(30) DEF Running, Panics
  <2>6. /\ verdict[id] = "new" => In(updates, New(id)) \/ (pc \in Received /\ block = id)
        /\ verdict[id] = "valid" => In(updates, Valid(id)) \/ (pc \in Weighed /\ block = id)
        /\ verdict[id] = "committing" => In(commits, id)
    BY <2>1, <2>5, Zenon DEF FateInv, Remembered
  <2>7. verdict[id] = "new" =>
           Queued("BlockNew", id) \/ InHandAt({"CheckBlocks", "FailBlock"}, id)
    BY <2>6, Zenon DEF In, New, Received, Queued, InHandAt
  <2>8. verdict[id] = "valid" =>
           \/ Queued("BlockValid", id)
           \/ InHandAt({"GetBlock", "GetChainHead", "GetChainBlock", "CommitBlock",
                        "IgnoreBlock"}, id)
    BY <2>6, Zenon DEF In, Valid, Weighed, Queued, InHandAt
  <2>9. verdict[id] = "committing" => \E i \in DOMAIN commits : commits[i] = id
    BY <2>6, ZenonT(30) DEF In
  <2> DEFINE previous == blocks[id].previousId
  <2>10. Arrived(previous) \/ verdict[previous] \in Judged
    <3>1. previous \in DOMAIN blocks /\ Root(blocks, previous)
      BY <2>1, <2>2, <2>3, <2>5, Zenon DEF Tree, FateInv, Rooted
    <3>2. CASE blocks[previous].num # 0
      BY <2>4, <3>1, <3>2, Zenon DEF Arrived
    <3>3. CASE blocks[previous].num = 0
      BY <3>1, <3>3 DEF Root, FateInv, Rooted, Judged
    <3> QED BY <3>2, <3>3, Zenon
  <2> QED BY <2>7, <2>8, <2>9, <2>10, ZenonT(30)
<1> QED BY <1>1, JudgeInvariant, FateInvariant, PTL

\* The engine and the validator together take each block through its judgement
\* step by step: a directive answers the update it belongs to, each once, and the
\* head moves only to a block that took every step.
THEOREM JudgementStepByStep == Spec => IsBlockJudgement
<1>1. Init => Fates!Init
  <2> SUFFICES ASSUME Init PROVE Fates!Init
    OBVIOUS
  <2>1. /\ verdict = [id \in ChainIds |-> "committed"] /\ DOMAIN blocks = ChainIds
        /\ head = Chain[Len(Chain)]
    BY DEF Init
  <2>2. ChainIds \subseteq Ids /\ head \in ChainIds
    BY <2>1, DevmodeAssumption DEF ChainIds
  <2> QED BY <2>1, <2>2, ZenonT(30) DEF Fates!Init
<1>2. JudgeInv /\ FateInv /\ [Next]_vars
        => [Fates!Next]_<<[id \in Ids |-> IF id \in DOMAIN verdict THEN verdict[id] ELSE "unknown"],
                          {id \in DOMAIN blocks : blocks[id].good}, head>>
  BY NextFate DEF FateStep
<1> QED BY <1>1, <1>2, JudgeInvariant, FateInvariant, PTL DEF Spec, IsBlockJudgement, Fates!Spec
-----------------------------------------------------------------------------
(* PublishingAtHead.                                                        *)

\* Where startWait has the flag reset, and where the timer found it so; and the
\* positions in which the engine is about to follow the head.
Unpublished == {"InitializeBlock", "SummarizeBlock", "FinalizeBlock"}
Following == {"CancelBlock", "GetSettings", "InitializeBlock"}
Extended(b, h) == \E id \in DOMAIN b : b[id].previousId = h /\ b[id].good
Kept(flag, bad, b, h, k) == IF flag THEN bad \/ Extended(b, h) ELSE k = h

PublishInv ==
    /\ pc \in Unpublished => ~publishedAtHeight
    /\ pc \in Panics \/ pc \in Following \/ CommitIn(updates)
       \/ Kept(publishedAtHeight, faulty, blocks, head, candidate)

\* PublishInv is what PublishingAtHead needs.
LEMMA PublishEnough == PublishInv => PublishingAtHead
<1> SUFFICES ASSUME PublishInv, Running, ~CommitIn(updates), pc \notin Following
             PROVE  Kept(publishedAtHeight, faulty, blocks, head, candidate)
  BY DEF PublishingAtHead, CommitIn, Following, Kept, Extended
<1> QED BY Zenon DEF PublishInv, Running, Panics

\* The updates that are queued, as a commit is looked for among them.
LEMMA CommitQueued ==
    ASSUME NEW s, IsSeq(s)
    PROVE  /\ \A e : CommitIn(s) => CommitIn(Append(s, e))
           /\ \A e : e.type = "BlockCommit" => CommitIn(Append(s, e))
           /\ s # <<>> /\ CommitIn(s) /\ Head(s).type # "BlockCommit" => CommitIn(Tail(s))
<1>1. \A t : CommitIn(t) <=> \E e : In(t, e) /\ e.type = "BlockCommit"
  BY DEF CommitIn, In
<1>2. ASSUME NEW e PROVE \A x : In(Append(s, e), x) <=> x = e \/ In(s, x)
  BY AppendIn, Zenon
<1>3. s # <<>> => \A e : In(s, e) <=> e = Head(s) \/ In(Tail(s), e)
  BY TailIn, Zenon
<1> QED BY <1>1, <1>2, <1>3, Zenon

\* Blocks are never taken away.
LEMMA ExtendedStays ==
    ASSUME NEW b, NEW c, NEW h, Extended(b, h),
           \A x \in DOMAIN b : x \in DOMAIN c /\ c[x] = b[x]
    PROVE  Extended(c, h)
BY DEF Extended

\* PublishInv over a step that leaves the candidate, the head and the flag alone.
LEMMA PublishFrame ==
    ASSUME PublishInv, UNCHANGED <<head, candidate, publishedAtHeight>>,
           faulty' = faulty \/ faulty' = TRUE,
           \A x \in DOMAIN blocks : x \in DOMAIN blocks' /\ blocks'[x] = blocks[x],
           CommitIn(updates) => CommitIn(updates') \/ pc' \in Following,
           pc' = pc \/ pc' \in Panics \/ pc \notin Panics \cup Following,
           pc' \in Unpublished => ~publishedAtHeight
    PROVE  PublishInv'
<1>1. Kept(publishedAtHeight, faulty, blocks, head, candidate)
        => Kept(publishedAtHeight', faulty', blocks', head', candidate')
  <2>1. Extended(blocks, head) => Extended(blocks', head)
    BY ExtendedStays
  <2> QED BY <2>1 DEF Kept
<1> QED BY <1>1 DEF PublishInv

\* PublishInv over taking an update.
LEMMA PublishTake ==
    ASSUME FateInv, PublishInv, NEW type, NEW next, NEW id, Take(type, next, id),
           next \notin Unpublished, type = "BlockCommit" => next \in Following
    PROVE  PublishInv'
<1>1. /\ pc = "select" /\ updates # <<>> /\ Head(updates) = Update(type, id) /\ pc' = next
      /\ updates' = Tail(updates)
      /\ UNCHANGED <<publishedAtHeight, blocks, head, candidate, faulty>>
  BY Zenon DEF Take, published
<1>2. Head(updates).type = type
  BY <1>1 DEF Update
<1>3. CommitIn(updates) => CommitIn(updates') \/ pc' \in Following
  BY <1>1, <1>2, CommitQueued DEF FateInv
<1>4. pc \notin Panics \cup Following
  BY <1>1 DEF Panics, Following
<1> QED BY <1>1, <1>3, <1>4, PublishFrame

\* PublishInv over a query of the validator.
LEMMA PublishAsk ==
    ASSUME PublishInv, NEW STATE step, NEW call, NEW STATE next, Ask(step, call, next),
           step \notin Panics \cup Following, next \notin Unpublished
    PROVE  PublishInv'
<1>1. PICK status \in Replies("OK") : Must(step, call, "OK", status, next)
  BY Zenon DEF Ask
<1>2. faulty' = faulty \/ faulty' = TRUE
  BY <1>1, FaultsStay, Zenon DEF Must
<1>3. /\ pc = step /\ pc' \in {next, "panic"}
      /\ UNCHANGED <<blocks, head, candidate, updates>>
  BY AskPc
<1>4. publishedAtHeight' = publishedAtHeight
  BY Zenon DEF Ask, published
<1>5. pc' \notin Unpublished
  BY <1>3 DEF Unpublished
<1> QED BY <1>2, <1>3, <1>4, <1>5, PublishFrame, Zenon

\* PublishInv over a directive.
LEMMA PublishDirective ==
    ASSUME PublishInv, NEW call, NEW recorded, Directive(call, recorded),
           call \notin Panics \cup Following
    PROVE  PublishInv'
<1>1. PICK status \in Replies("OK") : Must(call, call, "OK", status, "select")
  BY Zenon DEF Directive
<1>2. faulty' = faulty \/ faulty' = TRUE
  BY <1>1, FaultsStay, Zenon DEF Must
<1>3. UNCHANGED <<blocks, head, candidate, updates, publishedAtHeight>>
  BY Zenon DEF Directive, published
<1>4. pc = call /\ pc' \in {"select", "panic"}
  BY <1>1 DEF Must
<1>5. pc' \notin Unpublished
  BY <1>4 DEF Unpublished
<1> QED BY <1>2, <1>3, <1>4, <1>5, PublishFrame, Zenon

\* initializeBlock starts a block on the head, or panics.
LEMMA PublishInitialize == PanicInv /\ PublishInv /\ initializeBlock => PublishInv'
<1> SUFFICES ASSUME PanicInv, PublishInv, initializeBlock PROVE PublishInv'
  OBVIOUS
<1>1. pc = "InitializeBlock" /\ candidate = BLOCK_ID_NULL
  BY DEF initializeBlock, Must, PanicInv, NoCandidate
<1>2. PICK status \in Replies("OK") :
        /\ Must("InitializeBlock", "InitializeBlock", "OK", status, "select")
        /\ candidate' = IF status = "OK" THEN head ELSE candidate
        /\ UNCHANGED <<publishedAtHeight, head>>
  BY <1>1 DEF initializeBlock, published
<1>3. ~publishedAtHeight
  BY <1>1 DEF PublishInv, Unpublished
<1>4. CASE status = "OK"
  <2>1. pc' \in {"select", "panic"} /\ pc' \notin Unpublished
    BY <1>2 DEF Must, Unpublished
  <2>2. Kept(publishedAtHeight', faulty', blocks', head', candidate')
    BY <1>2, <1>3, <1>4 DEF Kept
  <2> QED BY <2>1, <2>2 DEF PublishInv
<1>5. CASE status # "OK"
  <2>1. status \in {"SERVICE_ERROR", "lost"}
    BY <1>2, <1>5, ZenonT(30) DEF Replies
  <2>2. "SERVICE_ERROR" \notin TypedStatuses("InitializeBlock")
    BY DEF TypedStatuses, PeerCalls, CandidateCalls
  <2>3. ServiceError("InitializeBlock", status) # NoError
    BY <2>1, <2>2 DEF ServiceError, NoError
  <2>4. pc' = "panic"
    BY <1>2, <2>3 DEF Must
  <2> QED BY <2>4 DEF PublishInv, Panics, Unpublished
<1> QED BY <1>4, <1>5

\* finalizeBlock publishes on the candidate's parent, unless a call fails.
LEMMA PublishFinalize ==
    JudgeInv /\ FateInv /\ OwnInv /\ PublishInv /\ finalizeBlock => PublishInv'
<1> SUFFICES ASSUME JudgeInv, FateInv, OwnInv, PublishInv, finalizeBlock PROVE PublishInv'
  OBVIOUS
<1> DEFINE expected == IF candidate = BLOCK_ID_NULL THEN "INVALID_STATE" ELSE "OK"
<1>1. CASE NotReady("FinalizeBlock")
  <2>1. UNCHANGED <<pc, publishedAtHeight, blocks, head, candidate, updates, faulty>>
    BY <1>1, Zenon DEF NotReady, published, validator
  <2> QED BY <2>1 DEF PublishInv
<1>2. CASE ~NotReady("FinalizeBlock")
  <2>1. PICK status \in Replies(expected), id \in Free :
           /\ pc = "FinalizeBlock"
           /\ Charge(expected, status)
           /\ \/ expected = "OK" /\ status \in {"OK", "lost"} /\ Signed(id)
              \/ status # "OK" /\ UNCHANGED validator
           /\ pc' = "Broadcast" /\ publishedAtHeight' = TRUE
    BY <1>2, Zenon DEF finalizeBlock
  <2>2. head' = head /\ (CommitIn(updates) => CommitIn(updates'))
    BY <2>1, CommitQueued, Zenon DEF Signed, validator, FateInv
  <2>3. ~publishedAtHeight
    BY <2>1 DEF PublishInv, Unpublished
  <2>4. pc' \notin Unpublished
    BY <2>1 DEF Unpublished
  <2> SUFFICES ASSUME ~CommitIn(updates), ~faulty' PROVE Extended(blocks', head')
    BY <2>1, <2>2, <2>4, Zenon DEF PublishInv, Kept
  <2>5. candidate = head
    BY <2>1, <2>3, Zenon DEF PublishInv, Panics, Following, Kept
  <2>6. head \in DOMAIN blocks /\ head # BLOCK_ID_NULL
    BY DevmodeAssumption DEF JudgeInv, HasPassed, Judgement, Tree, BLOCK_ID_NULL
  <2>7. status = expected /\ faulty' = faulty
    BY <2>1, FaultsStay, Zenon
  <2>8. Signed(id) /\ summary = TRUE
    BY <2>1, <2>5, <2>6, <2>7, ZenonT(30) DEF OwnInv
  <2>9. id \in DOMAIN blocks' /\ blocks'[id].previousId = candidate /\ blocks'[id].good
    BY <2>8, Zenon DEF Signed, With
  <2> QED BY <2>2, <2>5, <2>9 DEF Extended
<1> QED BY <1>1, <1>2

\* PublishInv over every step of the engine.
LEMMA EnginePublish ==
    JudgeInv /\ FateInv /\ PanicInv /\ OwnInv /\ PublishInv /\ Engine => PublishInv'
<1> SUFFICES ASSUME JudgeInv, FateInv, PanicInv, OwnInv, PublishInv, Engine PROVE PublishInv'
  OBVIOUS
<1>0. /\ "select" \notin Unpublished /\ "SendAck" \notin Panics \cup Following \cup Unpublished
      /\ \A x \in {"select", "SendAck", "panic", "panicInvalidMessage", "CancelBlock"}
                    \cup Received \cup Weighed : x \notin Unpublished
      /\ \A x \in {"select", "SendAck", "Broadcast", "SummarizeBlock", "FinalizeBlock"}
                    \cup Received \cup Weighed : x \notin Panics \cup Following
      /\ "CancelBlock" \in Following /\ "panic" \in Panics
  BY DEF Unpublished, Panics, Following, Received, Weighed
<1>1. CASE startWait
  <2>1. pc' = "InitializeBlock" /\ publishedAtHeight' = FALSE
    BY <1>1, Zenon DEF startWait
  <2> QED BY <2>1 DEF PublishInv, Following
<1>2. CASE initializeBlock
  BY <1>2, PublishInitialize
<1>3. CASE timerExpires
  <2>1. /\ pc = "select" /\ ~publishedAtHeight
        /\ UNCHANGED <<head, candidate, publishedAtHeight, faulty, blocks, updates>>
    BY <1>3, Zenon DEF timerExpires, validator, published
  <2> QED BY <1>0, <2>1, PublishFrame
<1>4. CASE summarizeBlock
  <2>1. /\ pc = "SummarizeBlock" /\ pc' \in {"SummarizeBlock", "FinalizeBlock"}
        /\ UNCHANGED <<head, candidate, publishedAtHeight, blocks, updates>>
    BY <1>4, Zenon DEF summarizeBlock, NotReady, validator, published
  <2>2. faulty' = faulty \/ faulty' = TRUE
    BY <1>4, FaultsStay, Zenon DEF summarizeBlock, NotReady
  <2>3. ~publishedAtHeight
    BY <2>1 DEF PublishInv, Unpublished
  <2> QED BY <1>0, <2>1, <2>2, <2>3, PublishFrame, Zenon
<1>5. CASE finalizeBlock
  BY <1>5, PublishFinalize
<1>6. CASE broadcastPublishedBlock
  <2>1. UNCHANGED <<head, candidate, publishedAtHeight, blocks, updates>>
    BY <1>6, Zenon DEF broadcastPublishedBlock, validator
  <2>2. PICK status \in Replies("OK") : Must("Broadcast", "Broadcast", "OK", status, "select")
    BY <1>6, Zenon DEF broadcastPublishedBlock
  <2>3. faulty' = faulty \/ faulty' = TRUE
    BY <2>2, FaultsStay, Zenon DEF Must
  <2>4. pc = "Broadcast" /\ pc' \in {"select", "panic"}
    BY <2>2 DEF Must
  <2> QED BY <1>0, <2>1, <2>3, <2>4, PublishFrame, Zenon
<1>7. CASE ignoreUpdate
  BY <1>0, <1>7, PublishTake, ZenonT(30) DEF ignoreUpdate
<1>8. CASE HandlePeerMessage
  BY <1>0, <1>8, PublishTake DEF HandlePeerMessage
<1>9. CASE sendBlockAck
  BY <1>0, <1>9, PublishAsk DEF sendBlockAck
<1>10. CASE HandleBlockNew
  <2>1. PICK id \in DOMAIN blocks, next \in {"select", "CheckBlocks", "FailBlock"} :
           Take("BlockNew", next, id)
    BY <1>10 DEF HandleBlockNew
  <2>2. next \notin Unpublished
    BY DEF Unpublished
  <2> QED BY <2>1, <2>2, PublishTake
<1>11. CASE checkBlock \/ failBlock \/ commitBlock \/ ignoreBlock
  BY <1>11, PublishDirective DEF checkBlock, failBlock, commitBlock, ignoreBlock, Panics, Following
<1>12. CASE HandleBlockValid
  <2>1. PICK id : Take("BlockValid", "GetBlock", id)
    BY <1>12, Zenon DEF HandleBlockValid
  <2> QED BY <2>1, PublishTake DEF Unpublished
<1>13. CASE sendBlockReceived
  <2>1. PICK call : Ask("GetBlock", call, "GetChainHead")
    BY <1>13, Zenon DEF sendBlockReceived
  <2> QED BY <2>1, PublishAsk DEF Unpublished, Panics, Following
<1>14. CASE getChainHead
  <2>1. Compared(head) \in {"CommitBlock", "GetChainBlock", "IgnoreBlock"}
    BY DEF Compared
  <2>2. Compared(head) \notin Unpublished /\ "GetChainHead" \notin Panics \cup Following
    BY <2>1 DEF Unpublished, Panics, Following
  <2> QED BY <1>14, <2>2, PublishAsk DEF getChainHead
<1>15. CASE getChainBlock
  <2> DEFINE next == Walked(blocks[chainBlock].previousId)
  <2>1. next \in {"CommitBlock", "GetChainBlock", "IgnoreBlock"}
    BY DEF Walked
  <2>2. Ask("GetChainBlock", "GetBlocks", next)
    BY <1>15, Zenon DEF getChainBlock
  <2>3. next \notin Unpublished /\ "GetChainBlock" \notin Panics \cup Following
    BY <2>1 DEF Unpublished, Panics, Following
  <2> HIDE DEF next
  <2> QED BY <2>2, <2>3, PublishAsk
<1>16. CASE HandleBlockCommit
  BY <1>0, <1>16, PublishTake, Zenon DEF HandleBlockCommit
<1>17. CASE cancelBlock
  <2>1. pc' \in {"GetSettings", "panic"}
    BY <1>17 DEF cancelBlock
  <2> QED BY <2>1 DEF PublishInv, Unpublished, Following, Panics
<1> QED
  BY <1>1, <1>2, <1>3, <1>4, <1>5, <1>6, <1>7, <1>8, <1>9, <1>10, <1>11, <1>12, <1>13,
     <1>14, <1>15, <1>16, <1>17, Zenon DEF Engine

\* PublishInv over every step of the validator: a commit announces itself.
LEMMA ValidatorPublish ==
    FateInv /\ PublishInv /\ (PeerBlock \/ Message \/ Validate \/ Commit) => PublishInv'
<1> SUFFICES ASSUME FateInv, PublishInv, PeerBlock \/ Message \/ Validate \/ Commit
             PROVE  PublishInv'
  OBVIOUS
<1>1. UNCHANGED <<pc, publishedAtHeight, faulty>>
  BY ValidatorMoves DEF published
<1>2. CASE Commit
  <2>1. PICK id : updates' = Append(updates, Update("BlockCommit", id))
    BY <1>2, Zenon DEF Commit, Announce
  <2>2. Update("BlockCommit", id).type = "BlockCommit"
    BY DEF Update
  <2>3. CommitIn(updates')
    BY <2>1, <2>2, CommitQueued, Zenon DEF FateInv
  <2> QED BY <1>1, <2>3 DEF PublishInv
<1>3. CASE PeerBlock \/ Message \/ Validate
  <2>1. UNCHANGED <<head, candidate>> /\ \E e : updates' = Append(updates, e)
    BY <1>3, Zenon DEF PeerBlock, Message, Validate, Announce
  <2>2. CommitIn(updates) => CommitIn(updates')
    BY <2>1, CommitQueued DEF FateInv
  <2>3. \A x \in DOMAIN blocks : x \in DOMAIN blocks' /\ blocks'[x] = blocks[x]
    BY ValidatorMoves, Zenon DEF With, Free
  <2>4. pc' \in Unpublished => ~publishedAtHeight
    BY <1>1 DEF PublishInv
  <2> QED BY <1>1, <2>1, <2>2, <2>3, <2>4, PublishFrame, ZenonT(30)
<1> QED BY <1>2, <1>3

\* publishedAtHeight follows the head: with every commit acted on, the engine has
\* published on the head, or is building on it, or a call has failed.
THEOREM PublishingFollowsHead == Spec => []PublishingAtHead
<1>1. Init => PublishInv
  BY DEF Init, PublishInv, Following
<1>2. JudgeInv /\ FateInv /\ PanicInv /\ OwnInv /\ PublishInv /\ [Next]_vars => PublishInv'
  <2>1. JudgeInv /\ FateInv /\ PanicInv /\ OwnInv /\ PublishInv /\ Next => PublishInv'
    BY EnginePublish, ValidatorPublish, Zenon DEF Next
  <2>2. PublishInv /\ UNCHANGED vars => PublishInv'
    BY DEF vars, published, validator, PublishInv
  <2> QED BY <2>1, <2>2
<1> QED BY <1>1, <1>2, PublishEnough, JudgeInvariant, FateInvariant, PanicInvariant,
           OwnInvariant, PTL DEF Spec
=============================================================================
