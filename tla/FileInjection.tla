---------------------------- MODULE FileInjection ----------------------------
(***************************************************************************)
(* The files of an environment (crates/vm-manager/src/file_injection.rs):  *)
(* prepare stages them one by one in a temporary directory, and then makes *)
(* a disk image of it by five commands on the host, any of which may fail. *)
(* The image and the mount point it is filled through are named by the     *)
(* session id and outlive the job, so that a later job of the id finds     *)
(* them; two jobs of one id do not overlap (FilesApart of VmManager).      *)
(*                                                                         *)
(* A tree is a set of files, each a path and its data; empty directories,  *)
(* sizes and owners are left out.                                          *)
(***************************************************************************)
EXTENDS Naturals, Sequences, SequencesExt

CONSTANTS
    Jobs,         \* calls of prepare, each by the lifecycle task of a VM
    Ids,          \* session ids
    IdOf,         \* job -> its session id
    StagingName,  \* job -> the name of its temporary directory
    Requests,     \* lists of file entries that may be asked for
    AsRoot,       \* TRUE: mkfs.ext4, run as the manager is, may look at loop devices
    NoImage, Blank

\* A file entry is [to, gives]: its guest path, and the trees that its source may
\* turn out to give; none if the source is wrong in every case.
ASSUME IdOfAssumption == IdOf \in [Jobs -> Ids]
ASSUME RequestsAssumption ==
    \A r \in Requests : Len(r) \in Nat /\ DOMAIN r = 1 .. Len(r)

VARIABLES
    files,     \* job -> the entries of its request
    at,        \* job -> the command it stands before
    next,      \* job -> the entry to stage next
    given,     \* job -> what the sources of the staged entries gave
    staged,    \* job -> the tree in its temporary directory
    image,     \* id -> the image: NoImage, Blank (no file system), or a tree
    mounts     \* id -> how often its image is mounted, one mount over the other

vars == <<files, at, next, given, staged, image, mounts>>

Stages == {"none", "stage", "create", "mkfs", "mount", "copy", "umount", "ready", "failed"}

TypeOK ==
    /\ files \in [Jobs -> Requests]
    /\ at \in [Jobs -> Stages]
    /\ \A j \in Jobs : next[j] \in 1 .. Len(files[j]) + 1 /\ Len(given[j]) = next[j] - 1
    /\ mounts \in [Ids -> {0, 1}]

-----------------------------------------------------------------------------
(* Trees *)

\* Entries of a directory are moved below a path.
Below(path, tree) == {[path |-> path \o f.path, data |-> f.data] : f \in tree}

\* A file stands where the other tree needs a directory, or the reverse.
Clash(tree, new) ==
    \E f \in tree, g \in new :
        IsStrictPrefix(f.path, g.path) \/ IsStrictPrefix(g.path, f.path)

\* Files that are there already are overwritten.
Overlaid(tree, new) == {f \in tree : \A g \in new : g.path # f.path} \union new

-----------------------------------------------------------------------------
Init ==
    /\ files \in [Jobs -> Requests]
    /\ at = [j \in Jobs |-> "none"]
    /\ next = [j \in Jobs |-> 1]
    /\ given = [j \in Jobs |-> <<>>]
    /\ staged = [j \in Jobs |-> {}]
    /\ image = [id \in Ids |-> NoImage]
    /\ mounts = [id \in Ids |-> 0]

Step(j, here, there) == at[j] = here /\ at' = [at EXCEPT ![j] = there]

Idle(j) == at[j] \in {"none", "ready", "failed"}

\* prepare is called in launch_vm; with no files there is nothing to do.
Begin(j) ==
    /\ \A k \in Jobs : IdOf[k] = IdOf[j] => Idle(k)
    /\ Step(j, "none", IF files[j] = <<>> THEN "ready" ELSE "stage")
    /\ UNCHANGED <<files, next, given, staged, image, mounts>>

\* As a bug would have it: an entry is staged again and again.
StageFile_Again(j) ==
    /\ next[j] <= Len(files[j])
    /\ \E tree \in files[j][next[j]].gives :
         /\ staged' = [staged EXCEPT ![j] = Overlaid(@, Below(files[j][next[j]].to, tree))]
         /\ given' = [given EXCEPT ![j] = Append(@, tree)]
         /\ Step(j, "stage", "stage")
    /\ UNCHANGED <<files, next, image, mounts>>

\* stage_file, which may also fail for reasons of its own.  A clone of a ref gives
\* the ref, or the head of the repository if neither the clone with --branch nor
\* the checkout finds the ref: the result of the checkout is ignored.
StageFile(j) ==
    /\ next[j] <= Len(files[j])
    /\ \/ \E tree \in files[j][next[j]].gives :
            LET new == Below(files[j][next[j]].to, tree)
            IN  /\ ~ Clash(staged[j], new)
                /\ staged' = [staged EXCEPT ![j] = Overlaid(@, new)]
                /\ given' = [given EXCEPT ![j] = Append(@, tree)]
                /\ next' = [next EXCEPT ![j] = @ + 1]
                /\ Step(j, "stage", "stage")
       \/ Step(j, "stage", "failed") /\ UNCHANGED <<staged, given, next>>
    /\ UNCHANGED <<files, image, mounts>>

AllStaged(j) ==
    /\ next[j] > Len(files[j])
    /\ Step(j, "stage", "create")
    /\ UNCHANGED <<files, next, given, staged, image, mounts>>

\* File::create truncates an image that is there, mounted or not.
CreateImage(j) ==
    /\ \/ Step(j, "create", "mkfs") /\ image' = [image EXCEPT ![IdOf[j]] = Blank]
       \/ Step(j, "create", "failed") /\ UNCHANGED image
    /\ UNCHANGED <<files, next, given, staged, mounts>>

\* As a bug would have it: -F twice, by which mkfs.ext4 formats what is mounted.
MakeFs_Forced(j) ==
    /\ \/ Step(j, "mkfs", "mount") /\ image' = [image EXCEPT ![IdOf[j]] = {}]
       \/ Step(j, "mkfs", "failed") /\ UNCHANGED image
    /\ UNCHANGED <<files, next, given, staged, mounts>>

\* mkfs.ext4 with a single -F refuses a file that is mounted, if it can find out:
\* other than mount, cp and umount it is not run with sudo.
MakeFs(j) ==
    /\ \/ /\ mounts[IdOf[j]] = 0 \/ ~ AsRoot
          /\ Step(j, "mkfs", "mount") /\ image' = [image EXCEPT ![IdOf[j]] = {}]
       \/ Step(j, "mkfs", "failed") /\ UNCHANGED image
    /\ UNCHANGED <<files, next, given, staged, mounts>>

MountImage(j) ==
    /\ \/ Step(j, "mount", "copy") /\ mounts' = [mounts EXCEPT ![IdOf[j]] = @ + 1]
       \/ Step(j, "mount", "failed") /\ UNCHANGED mounts
    /\ UNCHANGED <<files, next, given, staged, image>>

\* `cp -r staging mount/.' makes a directory named as the staging directory.  It
\* may also fail after some of the files, as when the image is too small.
CopyFiles(j) ==
    LET all == Below(<<StagingName[j]>>, staged[j])
        holding(some) == image' = [image EXCEPT ![IdOf[j]] = Overlaid(@, some)]
    IN  /\ \/ Step(j, "copy", "umount") /\ holding(all)
           \/ Step(j, "copy", "failed") /\ \E some \in {{}, all} : holding(some)
        /\ UNCHANGED <<files, next, given, staged, mounts>>

\* As a bug would have it: the image stays mounted.
Unmount_Skipped(j) ==
    /\ Step(j, "umount", "ready")
    /\ UNCHANGED <<files, next, given, staged, image, mounts>>

Unmount(j) ==
    /\ \/ Step(j, "umount", "ready") /\ mounts' = [mounts EXCEPT ![IdOf[j]] = @ - 1]
       \/ Step(j, "umount", "failed") /\ UNCHANGED mounts
    /\ UNCHANGED <<files, next, given, staged, image>>

Next ==
    \E j \in Jobs :
        \/ Begin(j) \/ StageFile(j) \/ AllStaged(j) \/ CreateImage(j) \/ MakeFs(j)
        \/ MountImage(j) \/ CopyFiles(j) \/ Unmount(j)

Spec == Init /\ [][Next]_vars

-----------------------------------------------------------------------------
(* Properties *)

\* Of the files that a job's staged entries gave, those that no later entry gave again.
FilesOf(j, i) == Below(files[j][i].to, given[j][i])
Kept(j, i) ==
    {f \in FilesOf(j, i) :
        \A k \in i + 1 .. next[j] - 1 : \A g \in FilesOf(j, k) : g.path # f.path}
Requested(j) == UNION {Kept(j, i) : i \in 1 .. next[j] - 1}

\* A VM is given an image with exactly the files of its own request, all of them and
\* below the name of the staging directory, whatever jobs of its id have left
\* behind, and nothing can write to it any more.
ImageIsOwn ==
    [][\A j \in Jobs :
         at[j] # "ready" /\ at'[j] = "ready" /\ files[j] # <<>> =>
             /\ next'[j] > Len(files[j])
             /\ image'[IdOf[j]] = Below(<<StagingName[j]>>, Requested(j)')
             /\ mounts'[IdOf[j]] = 0]_vars

\* An image stays mounted only if a job of its id failed.
MountedIsExplained ==
    \A id \in Ids : mounts[id] > 0 =>
        \E j \in Jobs : IdOf[j] = id /\ at[j] \in {"copy", "umount", "failed"}
=============================================================================
