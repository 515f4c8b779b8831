------------------------------ MODULE Staging -------------------------------
(***************************************************************************)
(* The staging of uploads of one file name on one day (ingest/upload.py):  *)
(* handle_upload writes to uploads/<name> and waits for every chunk, so    *)
(* uploads of the name share that file while they are under way; then, and *)
(* in ingest_bytes altogether, there is no wait: duplicates are refused,   *)
(* the staged file is renamed to media/YYYY/MM/DD/<name> and indexed.      *)
(*                                                                         *)
(* Files are inodes: an open handle goes on writing to its inode whatever  *)
(* the name refers to by then.  A handler's stretch between two waits is   *)
(* one action.                                                             *)
(*                                                                         *)
(* Abstractions.  A body is a sequence of chunks; equal digests are equal  *)
(* bodies.  Metadata is left out (module MediaStore has it).               *)
(***************************************************************************)
EXTENDS Naturals, Sequences, FiniteSets, Lists

CONSTANTS
    Sender,     \* the uploads
    Body,       \* [Sender -> sequences of chunks]
    Limit,      \* max_bytes, in chunks
    Hole,       \* what was never written
    NoInode     \* no such file, no such upload

(* What a file can be found to hold. *)
Data == {Hole} \cup UNION {Elements(Body[u]) : u \in Sender}

ASSUME LimitAssumption == Limit \in Nat
ASSUME BodyAssumption == Body \in [Sender -> Seq(Data)]
ASSUME NoInodeAssumption == NoInode \notin Nat /\ NoInode \notin Sender

VARIABLES
    inodes,     \* the contents of the files ever created
    staged,     \* the inode under the staging name
    stored,     \* the inode under the final name
    owner,      \* the upload indexed last under the final name
    sending,    \* [Sender -> [at, ino, off]]
    digests,    \* the bodies indexed
    disturbed,  \* history: uploads under way together with another one
    faults      \* history: uploads whose write failed

stageVars == <<inodes, staged, stored, owner, sending, digests, disturbed, faults>>

Open == {u \in Sender : sending[u].at = "open"}

(* A chunk written at an offset; a gap before it reads as holes. *)
WrittenAt(file, off, chunk) ==
    [k \in 1 .. (IF Len(file) > off THEN Len(file) ELSE off + 1) |->
        IF k = off + 1 THEN chunk ELSE IF k <= Len(file) THEN file[k] ELSE Hole]

-----------------------------------------------------------------------------
(* A slip of Create: what is there is written over, not emptied.            *)
CreateUntruncated ==
    IF staged = NoInode
    THEN inodes' = Append(inodes, <<>>) /\ staged' = Len(inodes) + 1
    ELSE UNCHANGED <<inodes, staged>>

(* The file open(staging, "wb") opens, and the files once it has content.   *)
StagingInode == IF staged = NoInode THEN Len(inodes) + 1 ELSE staged

WithStaged(content) ==
    IF staged = NoInode THEN Append(inodes, content)
                        ELSE [inodes EXCEPT ![staged] = content]

(* It makes the file or empties the one that is there.                      *)
Create == inodes' = WithStaged(<<>>) /\ staged' = StagingInode

(* handle_upload begins. *)
Begin(u) ==
    /\ sending[u].at = "new"
    /\ Create
    /\ sending' = [sending EXCEPT ![u] = [at |-> "open", ino |-> staged', off |-> 0]]
    /\ disturbed' = IF Open = {} THEN disturbed ELSE disturbed \cup Open \cup {u}
    /\ UNCHANGED <<stored, owner, digests, faults>>

Uploaded(u) == sending[u].off
Ended(u, how) == sending' = [sending EXCEPT ![u].at = how]

(* The next chunk; one too many and the staging name goes. *)
Chunk(u) ==
    LET s == sending[u]
    IN  /\ s.at = "open"
        /\ Uploaded(u) < Len(Body[u])
        /\ IF Uploaded(u) >= Limit
           THEN staged' = NoInode /\ Ended(u, "too large") /\ UNCHANGED <<inodes, faults>>
           ELSE /\ UNCHANGED staged
                /\ \/ /\ inodes' = [inodes EXCEPT ![s.ino] =
                                       WrittenAt(@, s.off, Body[u][s.off + 1])]
                      /\ sending' = [sending EXCEPT ![u].off = @ + 1]
                      /\ UNCHANGED faults
                   \/ Ended(u, "error") /\ faults' = faults \cup {u} /\ UNCHANGED inodes
        /\ UNCHANGED <<stored, owner, digests, disturbed>>

(* _finalize_staged, on whatever the staging name refers to. *)
Finalize(u, file) ==
    /\ staged' = NoInode
    /\ IF Body[u] \in digests
       THEN Ended(u, "duplicate") /\ UNCHANGED <<stored, owner, digests>>
       ELSE IF file = NoInode
       THEN Ended(u, "error") /\ UNCHANGED <<stored, owner, digests>>
       ELSE /\ stored' = file
            /\ owner' = u
            /\ digests' = digests \cup {Body[u]}
            /\ Ended(u, "ok")

(* handle_upload's last stretch. *)
Finish(u) ==
    /\ sending[u].at = "open"
    /\ Uploaded(u) = Len(Body[u])
    /\ Finalize(u, staged)
    /\ UNCHANGED <<inodes, disturbed, faults>>

(* ingest_bytes: all of it at once; a file it cannot write stays behind.    *)
IngestBytes(u) ==
    /\ sending[u].at = "new"
    /\ IF Len(Body[u]) > Limit
       THEN Ended(u, "too large")
            /\ UNCHANGED <<inodes, staged, stored, owner, digests, disturbed>>
       ELSE /\ inodes' = WithStaged(Body[u])
            /\ Finalize(u, StagingInode)
            /\ disturbed' = IF Open = {} THEN disturbed ELSE disturbed \cup Open \cup {u}
    /\ UNCHANGED faults

-----------------------------------------------------------------------------
StageInit ==
    /\ inodes = <<>>
    /\ staged = NoInode
    /\ stored = NoInode
    /\ owner = NoInode
    /\ sending = [u \in Sender |-> [at |-> "new", ino |-> NoInode, off |-> 0]]
    /\ digests = {}
    /\ disturbed = {}
    /\ faults = {}

StageNext == \E u \in Sender : Begin(u) \/ Chunk(u) \/ Finish(u) \/ IngestBytes(u)

StageSpec == StageInit /\ [][StageNext]_stageVars

-----------------------------------------------------------------------------
(* What an upload of a name leaves, if no other upload of it was under way  *)
(* at the same time: the whole body under the final name as long as it is   *)
(* the last one there, whatever failed, refused or oversized uploads of the *)
(* name left before it; and no error that its own write did not have        *)
(* (upload.py:47-82, 105-150).                                              *)
UploadedWhole ==
    \A u \in Sender \ disturbed :
        /\ owner = u => inodes[stored] = Body[u]
        /\ sending[u].at = "error" => u \in faults
=============================================================================
