------------------------- MODULE FileInjectionProofs -------------------------
(***************************************************************************)
(* Proofs about FileInjection, for any jobs, ids and requests: types, which *)
(* images stay mounted, and that every VM gets exactly its own files.       *)
(***************************************************************************)
EXTENDS FileInjection, TLAPS

(* The parts of the invariant *)

Trees == UNION {UNION {r[i].gives : i \in DOMAIN r} : r \in Requests}

\* TypeOK, and what a step needs to know of the variables that are not sets of
\* known values.
Shape ==
    /\ TypeOK
    /\ next \in [Jobs -> Nat]
    /\ given \in [Jobs -> Seq(Trees)]
    /\ DOMAIN staged = Jobs
    /\ DOMAIN image = Ids

\* Jobs of one id are at work one after the other.
OneAtATime ==
    \A j, k \in Jobs : IdOf[j] = IdOf[k] /\ ~ Idle(j) /\ ~ Idle(k) => j = k

\* The staging directory is what the entries staged so far amount to.
StagedIsRequested == \A j \in Jobs : staged[j] = Requested(j)

\* No job passes mkfs with an image that an earlier one has left mounted.
ImageInHand ==
    \A j \in Jobs :
        /\ at[j] = "mount" => mounts[IdOf[j]] = 0 /\ image[IdOf[j]] = {}
        /\ at[j] = "copy" => mounts[IdOf[j]] = 1 /\ image[IdOf[j]] = {}
        /\ at[j] = "umount" =>
              /\ mounts[IdOf[j]] = 1
              /\ image[IdOf[j]] = Below(<<StagingName[j]>>, staged[j])

\* Past staging, everything has been staged.
AllIsStaged ==
    \A j \in Jobs :
        at[j] \in {"create", "mkfs", "mount", "copy", "umount"} => next[j] > Len(files[j])

InjectionInv ==
    /\ Shape /\ OneAtATime /\ StagedIsRequested /\ ImageInHand /\ AllIsStaged
    /\ MountedIsExplained

-----------------------------------------------------------------------------
(* Lemmas *)

\* One more entry: its files go over those that were there, as cp and write do.
LEMMA OneMoreEntry ==
    ASSUME Shape, StagedIsRequested,
           NEW j \in Jobs, next[j] <= Len(files[j]),
           NEW tree \in files[j][next[j]].gives,
           files' = files,
           next' = [next EXCEPT ![j] = @ + 1],
           given' = [given EXCEPT ![j] = Append(@, tree)],
           staged' = [staged EXCEPT ![j] = Overlaid(@, Below(files[j][next[j]].to, tree))]
    PROVE  given' \in [Jobs -> Seq(Trees)] /\ StagedIsRequested'
  <1>0. PICK n \in Nat : n = next[j]
    BY DEF Shape
  <1> DEFINE new == Below(files[j][n].to, tree)
  <1>1. n = next[j] /\ n \in 1 .. Len(files[j]) + 1 /\ Len(given[j]) = n - 1
        /\ given[j] \in Seq(Trees) /\ files[j] \in Requests
    BY <1>0 DEF Shape, TypeOK
  <1>2. tree \in Trees
    <2>1. Len(files[j]) \in Nat /\ n \in DOMAIN files[j]
      BY <1>1, RequestsAssumption
    <2> QED BY <1>1, <2>1 DEF Trees
  <1>3. given'[j] = Append(given[j], tree) /\ given'[j] \in Seq(Trees)
    <2>1. given'[j] = Append(given[j], tree)
      BY DEF Shape
    <2> QED BY <1>1, <1>2, <2>1
  <1>4. given' \in [Jobs -> Seq(Trees)]
    <2>1. \A k \in Jobs : k # j => given'[k] = given[k]
      BY DEF Shape
    <2> QED BY <1>3, <2>1 DEF Shape
  <1>5. next'[j] = n + 1 /\ \A k \in Jobs : k # j => next'[k] = next[k]
    BY <1>1 DEF Shape
  <1>6. FilesOf(j, n)' = new
    <2>1. given'[j][n] = tree
      BY <1>1, <1>3
    <2> QED BY <2>1 DEF FilesOf
  <1>7. \A i \in 1 .. n - 1 : FilesOf(j, i)' = FilesOf(j, i)
    <2>1. \A i \in 1 .. n - 1 : given'[j][i] = given[j][i]
      BY <1>1, <1>3
    <2> QED BY <2>1 DEF FilesOf
  <1>8. staged'[j] = Overlaid(staged[j], new)
    BY <1>1 DEF Shape
  <1>9. Requested(j)' = Overlaid(Requested(j), new)
    <2>1. Kept(j, n)' = new
      <3>1. \A k \in n + 1 .. next'[j] - 1 : FALSE
        BY <1>1, <1>5
      <3> QED BY <1>6, <3>1 DEF Kept
    <2>2. ASSUME NEW i \in 1 .. n - 1
          PROVE  Kept(j, i)' = {f \in Kept(j, i) : \A g \in new : g.path # f.path}
      <3>1. i + 1 .. next'[j] - 1 = (i + 1 .. n - 1) \union {n}
        BY <1>1, <1>5
      <3>2. \A k \in i + 1 .. n - 1 : FilesOf(j, k)' = FilesOf(j, k)
        BY <1>1, <1>7
      <3>3. FilesOf(j, i)' = FilesOf(j, i)
        BY <1>7
      <3> HIDE DEF new
      <3>4. Kept(j, i)' =
              {f \in FilesOf(j, i) :
                 \A k \in (i + 1 .. n - 1) \union {n} :
                    \A g \in FilesOf(j, k)' : g.path # f.path}
        BY <3>1, <3>3 DEF Kept
      <3>5. Kept(j, i) =
              {f \in FilesOf(j, i) :
                 \A k \in i + 1 .. n - 1 : \A g \in FilesOf(j, k) : g.path # f.path}
        BY <1>1 DEF Kept
      <3> QED BY <3>2, <3>4, <3>5, <1>6
    <2>3. 1 .. next'[j] - 1 = (1 .. n - 1) \union {n}
      BY <1>1, <1>5
    <2>4. Requested(j)' = UNION {Kept(j, i)' : i \in (1 .. n - 1) \union {n}}
      BY <2>3 DEF Requested
    <2>5. Requested(j) = UNION {Kept(j, i) : i \in 1 .. n - 1}
      BY <1>1 DEF Requested
    <2> HIDE DEF new
    <2> QED BY <2>1, <2>2, <2>4, <2>5 DEF Overlaid
  <1>10. ASSUME NEW k \in Jobs, k # j
         PROVE  staged'[k] = Requested(k)'
    <2>1. given'[k] = given[k] /\ next'[k] = next[k] /\ staged'[k] = staged[k]
      BY <1>10 DEF Shape
    <2>2. Requested(k)' = Requested(k)
      <3>1. \A i : FilesOf(k, i)' = FilesOf(k, i)
        BY <2>1 DEF FilesOf
      <3>2. \A i : Kept(k, i)' = Kept(k, i)
        BY <2>1, <3>1 DEF Kept
      <3> QED BY <2>1, <3>2 DEF Requested
    <2> QED BY <2>1, <2>2 DEF StagedIsRequested
  <1>11. staged'[j] = Requested(j)'
    BY <1>8, <1>9 DEF StagedIsRequested
  <1> QED BY <1>4, <1>10, <1>11 DEF StagedIsRequested

-----------------------------------------------------------------------------
(* The invariant is inductive *)

LEMMA InitEstablishes == Init => InjectionInv
  <1> SUFFICES ASSUME Init PROVE InjectionInv
    OBVIOUS
  <1>1. Shape
    <2>1. \A j \in Jobs : Len(files[j]) \in Nat
      BY RequestsAssumption DEF Init
    <2>2. \A j \in Jobs : next[j] \in 1 .. Len(files[j]) + 1 /\ Len(given[j]) = next[j] - 1
      BY <2>1 DEF Init
    <2> QED BY <2>2 DEF Init, Shape, TypeOK, Stages
  <1>2. OneAtATime /\ ImageInHand /\ AllIsStaged /\ MountedIsExplained
    BY DEF Init, OneAtATime, ImageInHand, AllIsStaged, MountedIsExplained, Idle
  <1>3. StagedIsRequested
    <2>1. \A j \in Jobs : 1 .. next[j] - 1 = {}
      BY DEF Init
    <2>2. \A j \in Jobs : Requested(j) = {}
      BY <2>1 DEF Requested
    <2> QED BY <2>2 DEF Init, StagedIsRequested
  <1> QED BY <1>1, <1>2, <1>3 DEF InjectionInv

\* A step that stages nothing leaves the staging directories what they were.
LEMMA SameStaging ==
    ASSUME StagedIsRequested, UNCHANGED <<files, next, given, staged>>
    PROVE  StagedIsRequested'
  <1>1. \A j, i : FilesOf(j, i)' = FilesOf(j, i)
    BY DEF FilesOf
  <1>2. \A j, i : Kept(j, i)' = Kept(j, i)
    BY <1>1 DEF Kept
  <1>3. \A j : Requested(j)' = Requested(j)
    BY <1>2 DEF Requested
  <1> QED BY <1>3 DEF StagedIsRequested

\* What a job does that moves from one stage to the next.
Moves(j, to) ==
    /\ to \in Stages
    /\ at' = [at EXCEPT ![j] = to]
    /\ \A k \in Jobs : at'[k] = IF k = j THEN to ELSE at[k]

LEMMA StepMoves ==
    ASSUME Shape, NEW j \in Jobs, NEW here, NEW there \in Stages, Step(j, here, there)
    PROVE  Moves(j, there) /\ at[j] = here /\ at' \in [Jobs -> Stages]
  BY DEF Shape, TypeOK, Step, Moves

\* Only one job of an id is past its beginning, so that a step of one that is
\* leaves the image of every other such job alone.
LEMMA OthersKeepTheirs ==
    ASSUME OneAtATime, NEW j \in Jobs, ~ Idle(j), NEW k \in Jobs, k # j, ~ Idle(k)
    PROVE  IdOf[k] # IdOf[j]
  BY DEF OneAtATime

\* A job at work goes on or gives up.
LEMMA StaysAlone ==
    ASSUME OneAtATime, NEW j \in Jobs, ~ Idle(j), NEW there, Moves(j, there)
    PROVE  OneAtATime'
  BY DEF OneAtATime, Idle, Moves

LEMMA StaysStaged ==
    ASSUME AllIsStaged, NEW j \in Jobs, NEW there, Moves(j, there), UNCHANGED <<files, next>>,
           \/ at[j] \in {"create", "mkfs", "mount", "copy", "umount"}
           \/ there \in {"stage", "ready", "failed"}
           \/ next[j] > Len(files[j])
    PROVE  AllIsStaged'
  BY DEF AllIsStaged, Moves

\* Jobs of the other ids do not see what this one does with its image; nor is a job of
\* its own id at work.
LEMMA OthersInHand ==
    ASSUME ImageInHand, OneAtATime, NEW j \in Jobs, ~ Idle(j), NEW there, Moves(j, there),
           \A id \in Ids : id # IdOf[j] => mounts'[id] = mounts[id] /\ image'[id] = image[id],
           UNCHANGED staged,
           NEW k \in Jobs, k # j
    PROVE  /\ at'[k] = "mount" => mounts'[IdOf[k]] = 0 /\ image'[IdOf[k]] = {}
           /\ at'[k] = "copy" => mounts'[IdOf[k]] = 1 /\ image'[IdOf[k]] = {}
           /\ at'[k] = "umount" =>
                 /\ mounts'[IdOf[k]] = 1
                 /\ image'[IdOf[k]] = Below(<<StagingName[k]>>, staged'[k])
  <1>1. IdOf[k] \in Ids /\ at'[k] = at[k]
    BY IdOfAssumption DEF Moves
  <1>2. ~ Idle(k) => IdOf[k] # IdOf[j]
    BY DEF OneAtATime
  <1>3. at[k] \in {"mount", "copy", "umount"} => ~ Idle(k)
    BY DEF Idle
  <1> QED BY <1>1, <1>2, <1>3 DEF ImageInHand

LEMMA BeginStep ==
    ASSUME InjectionInv, NEW j \in Jobs, Begin(j)
    PROVE  InjectionInv'
  <1> USE DEF InjectionInv
  <1>1. PICK there \in {"ready", "stage"} : Moves(j, there) /\ at[j] = "none"
                                         /\ at' \in [Jobs -> Stages]
    BY StepMoves DEF Begin, Stages
  <1>2. UNCHANGED <<files, next, given, staged, image, mounts>>
    BY DEF Begin
  <1>3. Shape'
    BY <1>1, <1>2 DEF Shape, TypeOK
  <1>4. OneAtATime'
    <2>1. \A k \in Jobs : IdOf[k] = IdOf[j] => Idle(k)
      BY DEF Begin
    <2> QED BY <1>1, <2>1 DEF OneAtATime, Idle, Moves
  <1>5. StagedIsRequested'
    BY <1>2, SameStaging
  <1>6. ImageInHand'
    BY <1>1, <1>2 DEF ImageInHand, Moves
  <1>7. AllIsStaged'
    BY <1>1, <1>2, StaysStaged
  <1>8. MountedIsExplained'
    BY <1>1, <1>2 DEF MountedIsExplained, Moves
  <1> QED BY <1>3, <1>4, <1>5, <1>6, <1>7, <1>8

LEMMA StageFileStep ==
    ASSUME InjectionInv, NEW j \in Jobs, StageFile(j)
    PROVE  InjectionInv'
  <1> USE DEF InjectionInv
  <1>1. PICK there \in {"stage", "failed"} : Moves(j, there) /\ at[j] = "stage"
                                          /\ at' \in [Jobs -> Stages]
    BY StepMoves DEF StageFile, Stages
  <1>2. UNCHANGED <<files, image, mounts>> /\ next[j] <= Len(files[j])
    BY DEF StageFile
  <1>3. OneAtATime'
    BY <1>1, StaysAlone DEF Idle
  <1>4. ImageInHand'
    <2>1. \A k \in Jobs : k # j => staged'[k] = staged[k]
      BY DEF StageFile, Shape
    <2> QED BY <1>1, <1>2, <2>1 DEF ImageInHand, Moves
  <1>5. MountedIsExplained'
    BY <1>1, <1>2 DEF MountedIsExplained, Moves
  <1>6. CASE UNCHANGED <<staged, given, next>>
    <2>1. Shape'
      BY <1>1, <1>2, <1>6 DEF Shape, TypeOK
    <2>2. StagedIsRequested' /\ AllIsStaged'
      BY <1>1, <1>2, <1>6, SameStaging, StaysStaged
    <2> QED BY <1>3, <1>4, <1>5, <2>1, <2>2
  <1>7. CASE ~ UNCHANGED <<staged, given, next>>
    <2>1. PICK tree \in files[j][next[j]].gives :
            /\ staged' = [staged EXCEPT ![j] = Overlaid(@, Below(files[j][next[j]].to, tree))]
            /\ given' = [given EXCEPT ![j] = Append(@, tree)]
            /\ next' = [next EXCEPT ![j] = @ + 1]
      BY <1>7 DEF StageFile
    <2>2. given' \in [Jobs -> Seq(Trees)] /\ StagedIsRequested'
      BY <1>2, <2>1, OneMoreEntry
    <2>3. next' \in [Jobs -> Nat] /\ next'[j] = next[j] + 1
          /\ \A k \in Jobs : k # j => next'[k] = next[k] /\ given'[k] = given[k]
      BY <2>1 DEF Shape
    <2>4. Len(given'[j]) = next'[j] - 1 /\ next'[j] \in 1 .. Len(files[j]) + 1
      <3>1. given'[j] = Append(given[j], tree) /\ given[j] \in Seq(Trees)
            /\ given'[j] \in Seq(Trees) /\ Len(given[j]) = next[j] - 1 /\ next[j] \in Nat
            /\ next[j] \in 1 .. Len(files[j]) + 1
        BY <2>1, <2>2 DEF Shape, TypeOK
      <3>2. Len(given'[j]) = Len(given[j]) + 1
        BY <3>1
      <3>3. Len(files[j]) \in Nat
        BY RequestsAssumption DEF Shape, TypeOK
      <3> QED BY <1>2, <2>3, <3>1, <3>2, <3>3
    <2>5. Shape'
      <3>1. \A k \in Jobs : next'[k] \in 1 .. Len(files'[k]) + 1 /\ Len(given'[k]) = next'[k] - 1
        BY <1>2, <2>3, <2>4 DEF Shape, TypeOK
      <3> QED BY <1>1, <1>2, <2>1, <2>2, <2>3, <3>1 DEF Shape, TypeOK
    <2>6. AllIsStaged'
      <3>1. there \in {"stage", "failed"}
        BY <1>1
      <3> QED BY <1>1, <1>2, <2>3, <3>1 DEF AllIsStaged, Moves
    <2> QED BY <1>3, <1>4, <1>5, <2>2, <2>5, <2>6
  <1> QED BY <1>6, <1>7

\* What the commands that make the image have in common: it remains to say what they
\* do to the image of their own id, and why it is mounted if it is.
LEMMA CommandStep ==
    ASSUME InjectionInv, NEW j \in Jobs, NEW here, NEW there \in Stages, Step(j, here, there),
           here \in {"stage", "create", "mkfs", "mount", "copy", "umount"},
           UNCHANGED <<files, next, given, staged>>,
           here = "stage" => next[j] > Len(files[j]),
           DOMAIN image' = Ids, mounts' \in [Ids -> {0, 1}],
           \A id \in Ids : id # IdOf[j] => mounts'[id] = mounts[id] /\ image'[id] = image[id],
           there = "mount" => mounts'[IdOf[j]] = 0 /\ image'[IdOf[j]] = {},
           there = "copy" => mounts'[IdOf[j]] = 1 /\ image'[IdOf[j]] = {},
           there = "umount" =>
                /\ mounts'[IdOf[j]] = 1
                /\ image'[IdOf[j]] = Below(<<StagingName[j]>>, staged[j]),
           mounts'[IdOf[j]] > 0 =>
                \/ there \in {"copy", "umount", "failed"}
                \/ mounts[IdOf[j]] > 0 /\ here \notin {"copy", "umount"}
    PROVE  InjectionInv'
  <1> USE DEF InjectionInv
  <1>1. Moves(j, there) /\ at[j] = here /\ at' \in [Jobs -> Stages]
    BY StepMoves
  <1>2. ~ Idle(j)
    BY <1>1 DEF Idle
  <1>3. Shape'
    BY <1>1 DEF Shape, TypeOK
  <1>4. OneAtATime'
    BY <1>1, <1>2, StaysAlone
  <1>5. StagedIsRequested'
    BY SameStaging
  <1>6. ImageInHand'
    <2>1. ASSUME NEW k \in Jobs, k # j
          PROVE  /\ at'[k] = "mount" => mounts'[IdOf[k]] = 0 /\ image'[IdOf[k]] = {}
                 /\ at'[k] = "copy" => mounts'[IdOf[k]] = 1 /\ image'[IdOf[k]] = {}
                 /\ at'[k] = "umount" =>
                       /\ mounts'[IdOf[k]] = 1
                       /\ image'[IdOf[k]] = Below(<<StagingName[k]>>, staged'[k])
      BY <1>1, <1>2, <2>1, OthersInHand
    <2>2. at'[j] = there
      BY <1>1 DEF Moves
    <2> QED BY <2>1, <2>2 DEF ImageInHand
  <1>7. AllIsStaged'
    BY <1>1, StaysStaged
  <1>8. MountedIsExplained'
    <2>1. ASSUME NEW id \in Ids, mounts'[id] > 0
          PROVE  \E k \in Jobs : IdOf[k] = id /\ at'[k] \in {"copy", "umount", "failed"}
      <3>1. at'[j] = there /\ \A k \in Jobs : k # j => at'[k] = at[k]
        BY <1>1 DEF Moves
      <3>2. CASE id # IdOf[j]
        <4>1. PICK k \in Jobs : IdOf[k] = id /\ at[k] \in {"copy", "umount", "failed"}
          BY <2>1, <3>2 DEF MountedIsExplained
        <4> QED BY <3>1, <3>2, <4>1
      <3>3. CASE id = IdOf[j] /\ there \in {"copy", "umount", "failed"}
        BY <3>1, <3>3
      <3>4. CASE id = IdOf[j] /\ mounts[id] > 0 /\ here \notin {"copy", "umount"}
        <4>1. PICK k \in Jobs : IdOf[k] = id /\ at[k] \in {"copy", "umount", "failed"}
          BY <3>4 DEF MountedIsExplained
        <4> QED BY <1>1, <3>1, <3>4, <4>1
      <3> QED BY <2>1, <3>2, <3>3, <3>4
    <2> QED BY <2>1 DEF MountedIsExplained
  <1> QED BY <1>3, <1>4, <1>5, <1>6, <1>7, <1>8

LEMMA AllStagedStep ==
    ASSUME InjectionInv, NEW j \in Jobs, AllStaged(j)
    PROVE  InjectionInv'
  <1>1. Shape /\ IdOf[j] \in Ids
    BY IdOfAssumption DEF InjectionInv
  <1>2. /\ Step(j, "stage", "create") /\ next[j] > Len(files[j])
        /\ UNCHANGED <<files, next, given, staged, image, mounts>>
    BY DEF AllStaged
  <1>3. DOMAIN image' = Ids /\ mounts' \in [Ids -> {0, 1}]
    BY <1>1, <1>2 DEF Shape, TypeOK
  <1> QED BY <1>1, <1>2, <1>3, CommandStep DEF Stages

LEMMA CreateImageStep ==
    ASSUME InjectionInv, NEW j \in Jobs, CreateImage(j)
    PROVE  InjectionInv'
  <1>1. Shape /\ IdOf[j] \in Ids
    BY IdOfAssumption DEF InjectionInv
  <1>2. PICK there \in {"mkfs", "failed"} : Step(j, "create", there)
    BY DEF CreateImage
  <1>3. /\ UNCHANGED <<files, next, given, staged, mounts>>
        /\ DOMAIN image' = Ids /\ mounts' \in [Ids -> {0, 1}]
        /\ \A id \in Ids : id # IdOf[j] => image'[id] = image[id]
    BY <1>1 DEF CreateImage, Shape, TypeOK
  <1> QED BY <1>1, <1>2, <1>3, CommandStep DEF Stages

LEMMA MakeFsStep ==
    ASSUME AsRoot, InjectionInv, NEW j \in Jobs, MakeFs(j)
    PROVE  InjectionInv'
  <1>1. Shape /\ IdOf[j] \in Ids
    BY IdOfAssumption DEF InjectionInv
  <1>2. PICK there \in {"mount", "failed"} :
            /\ Step(j, "mkfs", there)
            /\ there = "mount" => mounts'[IdOf[j]] = 0 /\ image'[IdOf[j]] = {}
    BY <1>1 DEF MakeFs, Shape
  <1>3. /\ UNCHANGED <<files, next, given, staged, mounts>>
        /\ DOMAIN image' = Ids /\ mounts' \in [Ids -> {0, 1}]
        /\ \A id \in Ids : id # IdOf[j] => image'[id] = image[id]
    BY <1>1 DEF MakeFs, Shape, TypeOK
  <1> QED BY <1>1, <1>2, <1>3, CommandStep DEF Stages

LEMMA MountImageStep ==
    ASSUME InjectionInv, NEW j \in Jobs, MountImage(j)
    PROVE  InjectionInv'
  <1>1. Shape /\ IdOf[j] \in Ids /\ mounts \in [Ids -> {0, 1}]
    BY IdOfAssumption DEF InjectionInv, Shape, TypeOK
  <1>2. PICK there \in {"copy", "failed"} :
            /\ Step(j, "mount", there)
            /\ \/ there = "copy" /\ mounts' = [mounts EXCEPT ![IdOf[j]] = @ + 1]
               \/ there = "failed" /\ UNCHANGED mounts
    BY DEF MountImage
  <1>3. UNCHANGED <<files, next, given, staged, image>>
    BY DEF MountImage
  <1>4. Step(j, "mount", there)
    BY <1>2
  <1>5. mounts[IdOf[j]] = 0 /\ image[IdOf[j]] = {}
    BY <1>4 DEF InjectionInv, ImageInHand, Step
  <1>6. /\ mounts' \in [Ids -> {0, 1}]
        /\ \A id \in Ids : id # IdOf[j] => mounts'[id] = mounts[id]
        /\ there = "copy" => mounts'[IdOf[j]] = 1
    <2>1. CASE there = "copy"
      <3>1. mounts' = [mounts EXCEPT ![IdOf[j]] = 1]
        BY <1>2, <1>5, <2>1
      <3> QED BY <1>1, <3>1
    <2>2. CASE there = "failed"
      BY <1>1, <1>2, <2>2
    <2> QED BY <2>1, <2>2
  <1>7. DOMAIN image' = Ids
    BY <1>1, <1>3 DEF Shape
  <1>8. there \in Stages /\ \A id \in Ids : id # IdOf[j] => image'[id] = image[id]
    BY <1>3 DEF Stages
  <1>9. mounts'[IdOf[j]] > 0 => there \in {"copy", "umount", "failed"}
    BY <1>6
  <1>10. /\ there # "mount" /\ there # "umount"
         /\ there = "copy" => mounts'[IdOf[j]] = 1 /\ image'[IdOf[j]] = {}
    BY <1>3, <1>5, <1>6
  <1> QED BY <1>3, <1>4, <1>6, <1>7, <1>8, <1>9, <1>10, CommandStep

LEMMA CopyFilesStep ==
    ASSUME InjectionInv, NEW j \in Jobs, CopyFiles(j)
    PROVE  InjectionInv'
  <1>1. Shape /\ IdOf[j] \in Ids
    BY IdOfAssumption DEF InjectionInv
  <1>2. PICK there \in {"umount", "failed"} :
            /\ Step(j, "copy", there)
            /\ there = "umount" => image' = [image EXCEPT ![IdOf[j]] =
                                      Overlaid(@, Below(<<StagingName[j]>>, staged[j]))]
            /\ there = "failed" => \E some : image' = [image EXCEPT ![IdOf[j]] = Overlaid(@, some)]
    BY DEF CopyFiles
  <1>3. UNCHANGED <<files, next, given, staged, mounts>>
    BY DEF CopyFiles
  <1>4. mounts[IdOf[j]] = 1 /\ image[IdOf[j]] = {}
    BY <1>2 DEF InjectionInv, ImageInHand, Step
  <1>5. DOMAIN image' = Ids /\ mounts' \in [Ids -> {0, 1}]
        /\ \A id \in Ids : id # IdOf[j] => image'[id] = image[id]
    BY <1>1, <1>2, <1>3 DEF Shape, TypeOK
  <1>6. there = "umount" => image'[IdOf[j]] = Below(<<StagingName[j]>>, staged[j])
    <2>1. \A new : Overlaid({}, new) = new
      BY DEF Overlaid
    <2> QED BY <1>1, <1>2, <1>4, <2>1 DEF Shape
  <1> QED BY <1>1, <1>2, <1>3, <1>4, <1>5, <1>6, CommandStep DEF Stages

LEMMA UnmountStep ==
    ASSUME InjectionInv, NEW j \in Jobs, Unmount(j)
    PROVE  InjectionInv'
  <1>1. Shape /\ IdOf[j] \in Ids /\ mounts \in [Ids -> {0, 1}]
    BY IdOfAssumption DEF InjectionInv, Shape, TypeOK
  <1>2. PICK there \in {"ready", "failed"} :
            /\ Step(j, "umount", there)
            /\ \/ there = "ready" /\ mounts' = [mounts EXCEPT ![IdOf[j]] = @ - 1]
               \/ there = "failed" /\ UNCHANGED mounts
    BY DEF Unmount
  <1>3. UNCHANGED <<files, next, given, staged, image>>
    BY DEF Unmount
  <1>4. Step(j, "umount", there)
    BY <1>2
  <1>5. mounts[IdOf[j]] = 1
    BY <1>4 DEF InjectionInv, ImageInHand, Step
  <1>6. /\ mounts' \in [Ids -> {0, 1}]
        /\ \A id \in Ids : id # IdOf[j] => mounts'[id] = mounts[id]
        /\ there = "ready" => mounts'[IdOf[j]] = 0
    <2>1. CASE there = "ready"
      <3>1. mounts' = [mounts EXCEPT ![IdOf[j]] = 0]
        BY <1>2, <1>5, <2>1
      <3> QED BY <1>1, <3>1
    <2>2. CASE there = "failed"
      BY <1>1, <1>2, <2>2
    <2> QED BY <2>1, <2>2
  <1>7. DOMAIN image' = Ids
    BY <1>1, <1>3 DEF Shape
  <1>8. there \in Stages /\ \A id \in Ids : id # IdOf[j] => image'[id] = image[id]
    BY <1>3 DEF Stages
  <1>9. mounts'[IdOf[j]] > 0 => there \in {"copy", "umount", "failed"}
    BY <1>6
  <1>10. /\ there # "mount" /\ there # "umount"
         /\ there = "copy" => mounts'[IdOf[j]] = 1 /\ image'[IdOf[j]] = {}
    BY <1>3, <1>5, <1>6
  <1> QED BY <1>3, <1>4, <1>6, <1>7, <1>8, <1>9, <1>10, CommandStep

LEMMA NextPreserves == AsRoot /\ InjectionInv /\ [Next]_vars => InjectionInv'
  <1> SUFFICES ASSUME AsRoot, InjectionInv, [Next]_vars PROVE InjectionInv'
    OBVIOUS
  <1>1. ASSUME NEW j \in Jobs,
               \/ Begin(j) \/ StageFile(j) \/ AllStaged(j) \/ CreateImage(j) \/ MakeFs(j)
               \/ MountImage(j) \/ CopyFiles(j) \/ Unmount(j)
        PROVE  InjectionInv'
    BY <1>1, BeginStep, StageFileStep, AllStagedStep, CreateImageStep, MakeFsStep,
       MountImageStep, CopyFilesStep, UnmountStep
  <1>2. CASE UNCHANGED vars
    <2>1. StagedIsRequested'
      BY <1>2, SameStaging DEF InjectionInv, vars
    <2> QED BY <1>2, <2>1 DEF InjectionInv, vars, Shape, TypeOK, OneAtATime, Idle,
                              ImageInHand, AllIsStaged, MountedIsExplained
  <1> QED BY <1>1, <1>2 DEF Next

THEOREM Invariant ==
    ASSUME AsRoot
    PROVE  Spec => []InjectionInv
  BY InitEstablishes, NextPreserves, PTL DEF Spec

-----------------------------------------------------------------------------
(* The theorems *)

\* Where mkfs.ext4 may look at loop devices, every variable of the injection keeps its
\* type; above all no image is mounted twice, and as many entries have been staged as
\* the loop of prepare has counted.
THEOREM TypeCorrect ==
    ASSUME AsRoot
    PROVE  Spec => []TypeOK
  <1>1. InjectionInv => TypeOK
    BY DEF InjectionInv, Shape
  <1> QED BY <1>1, Invariant, PTL

\* build_ext4_image leaves a mount behind only if it has failed.
THEOREM MountsAreExplained ==
    ASSUME AsRoot
    PROVE  Spec => []MountedIsExplained
  <1>1. InjectionInv => MountedIsExplained
    BY DEF InjectionInv
  <1> QED BY <1>1, Invariant, PTL

\* The image that prepare returns has exactly the files of its own request, and is
\* mounted nowhere, whatever earlier jobs of the id have left.
THEOREM ImagesAreOwn ==
    ASSUME AsRoot
    PROVE  Spec => ImageIsOwn
  <1> DEFINE Own(j) == at[j] # "ready" /\ at'[j] = "ready" /\ files[j] # <<>> =>
                         /\ next'[j] > Len(files[j])
                         /\ image'[IdOf[j]] = Below(<<StagingName[j]>>, Requested(j)')
                         /\ mounts'[IdOf[j]] = 0
  <1>1. ASSUME InjectionInv, Next, NEW j \in Jobs
        PROVE  Own(j)
    <2> SUFFICES ASSUME at[j] # "ready", at'[j] = "ready", files[j] # <<>>
                 PROVE  /\ next'[j] > Len(files[j])
                        /\ image'[IdOf[j]] = Below(<<StagingName[j]>>, Requested(j)')
                        /\ mounts'[IdOf[j]] = 0
      OBVIOUS
    <2>1. at \in [Jobs -> Stages] /\ IdOf[j] \in Ids /\ mounts \in [Ids -> {0, 1}]
      BY <1>1, IdOfAssumption DEF InjectionInv, Shape, TypeOK
    <2>2. PICK k \in Jobs : \/ Begin(k) \/ StageFile(k) \/ AllStaged(k) \/ CreateImage(k)
                            \/ MakeFs(k) \/ MountImage(k) \/ CopyFiles(k) \/ Unmount(k)
      BY <1>1 DEF Next
    <2>3. Unmount(j) /\ Step(j, "umount", "ready")
      BY <2>1, <2>2 DEF Begin, StageFile, AllStaged, CreateImage, MakeFs, MountImage,
                        CopyFiles, Unmount, Step
    <2>4. /\ at[j] = "umount" /\ mounts' = [mounts EXCEPT ![IdOf[j]] = @ - 1]
          /\ UNCHANGED <<files, next, given, staged, image>>
      BY <2>1, <2>3 DEF Unmount, Step
    <2>5. /\ mounts[IdOf[j]] = 1 /\ next[j] > Len(files[j])
          /\ image[IdOf[j]] = Below(<<StagingName[j]>>, staged[j])
      BY <1>1, <2>4 DEF InjectionInv, ImageInHand, AllIsStaged
    <2>6. InjectionInv'
      BY <1>1, NextPreserves
    <2>7. staged'[j] = Requested(j)'
      BY <2>6 DEF InjectionInv, StagedIsRequested
    <2>8. mounts'[IdOf[j]] = 0
      <3>1. mounts' = [mounts EXCEPT ![IdOf[j]] = 0]
        BY <2>4, <2>5
      <3> QED BY <2>1, <3>1
    <2> QED BY <2>4, <2>5, <2>7, <2>8
  <1>2. InjectionInv /\ [Next]_vars => [\A j \in Jobs : Own(j)]_vars
    BY <1>1
  <1>3. Spec => [][\A j \in Jobs : Own(j)]_vars
    BY <1>2, Invariant, PTL DEF Spec
  <1> QED BY <1>3 DEF ImageIsOwn

=============================================================================
