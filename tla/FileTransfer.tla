------------------------------ MODULE FileTransfer ------------------------------
(***************************************************************************)
(* The upload and download streams of src/src/app.rs over the managed      *)
(* files, and rename_file.  An upload opens a file at the first chunk that *)
(* names it, writes each chunk where it says, and reads the file back, by  *)
(* its name, to give it its mode and to answer with its hash; nothing      *)
(* keeps two streams, or a rename, from the same file.                     *)
(*                                                                         *)
(* A name is of an inode, and an open file stays with its inode.  A chunk  *)
(* has one byte, and a download reads one at a time.  The hash of a file   *)
(* is its content.  write_all on a tokio File only hands the bytes to a    *)
(* blocking thread: what is done next with that File waits for them, but a *)
(* File that is dropped does not.                                          *)
(***************************************************************************)
EXTENDS Naturals, Sequences, FiniteSets, SequencesExt

CONSTANTS
  ManagedFiles, Bytes, \* names of managed files; what is written
  ProgramNames,        \* the names that end like those of programs
  Magic, Zero,         \* bytes: the mark of a program; what fills a hole
  NoFile,              \* no file of that name; none open
  Uploads, Downloads,  \* streams, each made once
  Renames,             \* calls of rename_file, each made once
  MaxFileSize,         \* max_file_transfer_bytes
  MaxTransfers         \* bound: chunks, downloads and renames

ASSUME TransferAssumption ==
  /\ NoFile \notin ManagedFiles /\ NoFile \notin Nat /\ NoFile \notin Seq(Bytes \cup {Zero})
  /\ ManagedFiles \cap Nat = {}
  /\ MaxFileSize \in Nat /\ MaxTransfers \in Nat

VARIABLES
  named,     \* name -> its inode, or NoFile
  content,   \* inode -> its bytes
  mode,      \* inode -> "default", "plain" or "program"
  upload,    \* upload -> its step, the file it has open, its chunk, the write
             \* on its way, what looks_executable said, its answer
  strays,    \* writes on their way to files that have been dropped
  download,  \* download -> its step, the length it was told, what it has got;
             \* history: what the file was then
  rename,    \* call of rename_file -> its step and its names
  expected,  \* history: upload -> its file as its own writes should leave it
  shared,    \* history: streams that met an upload, a stray write or a rename
  transfers  \* bound's counter

transferVars ==
  <<named, content, mode, upload, strays, download, rename, expected, shared, transfers>>

(* The inode of a file that is there at the start is known by its name, a  *)
(* later one by the number of the chunk that made it.                      *)
Inodes == ManagedFiles \cup 1..MaxTransfers

Active(u) == /\ upload[u].step \in {"next", "write", "close", "finalize", "hash"}
             /\ upload[u].path # NoFile
Reads(d, i) == download[d].step \in {"open", "read"} /\ download[d].file = i

(* The streams that meet when u opens a file: those that write to the file *)
(* of that name, or to that inode, and those that read the inode.          *)
Meeting(u, f, i) ==
  LET writers == {v \in Uploads \ {u} : Active(v) /\ (upload[v].path = f \/ upload[v].file = i)}
      readers == {d \in Downloads : Reads(d, i)}
  IN IF writers = {} /\ \A w \in strays : w.file # i THEN readers
     ELSE readers \cup writers \cup {u}

(* The streams that a change of what f names can mislead *)
Naming(f) == {u \in Uploads : Active(u) /\ upload[u].path = f}
             \cup {d \in Downloads : download[d].step = "open" /\ download[d].path = f}

(* seek and write_all: past the end, the hole is filled with zeros *)
WriteAt(bytes, position, byte) ==
  [i \in 1..(IF position < Len(bytes) THEN Len(bytes) ELSE position + 1) |->
     IF i = position + 1 THEN byte ELSE IF i <= Len(bytes) THEN bytes[i] ELSE Zero]

(* A file that is there when the agent starts, whatever the limit is *)
Found == <<Zero, Zero>>

Stream(step) == [step |-> step, path |-> NoFile, file |-> NoFile, chunk |-> << >>,
                 queued |-> << >>, look |-> "none", sha256 |-> NoFile]

TransferInit ==
  /\ named \in {names \in [ManagedFiles -> ManagedFiles \cup {NoFile}] :
                  \A f \in ManagedFiles : names[f] \in {f, NoFile}}
  /\ content = [i \in Inodes |-> IF i \in ManagedFiles /\ named[i] = i THEN Found ELSE << >>]
  /\ mode = [i \in Inodes |-> "default"]
  /\ upload = [u \in Uploads |-> Stream("next")] /\ strays = {}
  /\ download = [d \in Downloads |-> [step |-> "none"]]
  /\ rename = [r \in Renames |-> [step |-> "none"]]
  /\ expected = [u \in Uploads |-> << >>] /\ shared = {} /\ transfers = 0
-----------------------------------------------------------------------------
(* A File is dropped: its last write may still be on its way. *)
Unflushed(u) == {[file |-> upload[u].file, chunk |-> c] : c \in Range(upload[u].queued)}

(* An error ends the stream and drops the file it has open, as it is. *)
Fail(u) == /\ upload' = [upload EXCEPT ![u] = Stream("failed")]
           /\ strays' = strays \cup Unflushed(u)

(* Mutant: the open file is kept for every chunk of the stream. *)
NeedsOpenOnce(u, f) == upload[u].path = NoFile

(* A chunk for another file opens that one, and the one before is dropped  *)
(* without being flushed, synced or given its mode.                        *)
NeedsOpen(u, f) == upload[u].path # f

(* ensure_upload_limits: a negative position, as it is read without its    *)
(* sign, is past every limit.                                              *)
WithinLimits(position) == position + 1 <= MaxFileSize

(* A chunk is refused, and the stream ended, when it goes past the limit   *)
(* or the disk has no room for it.                                         *)
ReceiveChunk(u) ==
  \E f \in ManagedFiles, position \in 0..MaxFileSize, byte \in Bytes, close \in BOOLEAN :
    LET chunk == [number |-> transfers + 1, position |-> position, byte |-> byte, close |-> close]
        found == IF named[f] = NoFile THEN transfers + 1 ELSE named[f]
    IN
    /\ upload[u].step = "next" /\ transfers < MaxTransfers /\ transfers' = transfers + 1
    /\ \/ /\ WithinLimits(position)
          /\ \/ /\ NeedsOpen(u, f)
                /\ upload' = [upload EXCEPT ![u] =
                     [Stream("write") EXCEPT !.path = f, !.file = found, !.chunk = <<chunk>>]]
                /\ strays' = strays \cup Unflushed(u)
                /\ named' = [named EXCEPT ![f] = found]
                /\ shared' = shared \cup Meeting(u, f, found)
             \/ /\ ~NeedsOpen(u, f)
                /\ upload' = [upload EXCEPT ![u].step = "write", ![u].chunk = <<chunk>>]
                /\ UNCHANGED <<named, strays, shared>>
          /\ expected' = [expected EXCEPT ![u] = IF upload[u].path = f THEN @ ELSE content[found]]
       \/ Fail(u) /\ UNCHANGED <<named, expected, shared>>
    /\ UNCHANGED <<content, mode, download, rename>>

(* The seek waits for the write before; the chunk is on its way then. *)
QueueChunk(u) ==
  LET chunk == upload[u].chunk[1] IN
  /\ upload[u].step = "write" /\ upload[u].queued = << >>
  /\ upload' = [upload EXCEPT ![u] =
       [@ EXCEPT !.step = IF chunk.close THEN "close" ELSE "next",
                 !.chunk = << >>, !.queued = <<chunk>>]]
  /\ expected' = [expected EXCEPT ![u] = WriteAt(@, chunk.position, chunk.byte)]
  /\ UNCHANGED <<named, content, mode, strays, download, rename, shared, transfers>>

ChunkLands(u) ==
  /\ upload[u].queued # << >>
  /\ LET chunk == upload[u].queued[1] IN
     content' = [content EXCEPT ![upload[u].file] = WriteAt(@, chunk.position, chunk.byte)]
  /\ upload' = [upload EXCEPT ![u].queued = << >>]
  /\ UNCHANGED <<named, mode, strays, download, rename, expected, shared, transfers>>

(* The write of a dropped file lands, or fails and nobody hears of it. *)
StrayEnds == \E w \in strays :
  /\ \/ content' = [content EXCEPT ![w.file] = WriteAt(@, w.chunk.position, w.chunk.byte)]
     \/ UNCHANGED content
  /\ strays' = strays \ {w}
  /\ UNCHANGED <<named, mode, upload, download, rename, expected, shared, transfers>>

(* looks_executable *)
ModeOf(f, bytes) ==
  IF f \in ProgramNames \/ (bytes # << >> /\ Head(bytes) = Magic) THEN "program" ELSE "plain"

(* Mutant: the file is dropped without a flush. *)
FlushedNot(u) == TRUE

(* finalize_upload: flush and sync_all wait for the write on its way. *)
Flushed(u) == upload[u].queued = << >>

(* What the file starts with is read through its name; when it cannot be   *)
(* read, the error is swallowed (unwrap_or) and the file is a plain one.   *)
LooksExecutable(u) ==
  LET f == upload[u].path IN
  /\ upload[u].step \in {"close", "finalize"} /\ upload[u].look = "none" /\ Flushed(u)
  /\ \E look \in {"program", "plain", "unread"} :
       /\ IF f \in ProgramNames THEN look = "program"
          ELSE look # "unread" => named[f] # NoFile /\ look = ModeOf(f, content[named[f]])
       /\ upload' = [upload EXCEPT ![u].look = look]
  /\ UNCHANGED <<named, content, mode, strays, download, rename, expected, shared, transfers>>

(* After a chunk with close_after_write there is no file open, and a       *)
(* stream that ends then has no hash to answer with.                       *)
SetPermissions(u) ==
  LET file == named[upload[u].path] IN
  /\ upload[u].look # "none" /\ upload[u].step \in {"close", "finalize"}
  /\ IF file = NoFile THEN Fail(u) /\ UNCHANGED mode
     ELSE /\ mode' = [mode EXCEPT ![file] =
               IF upload[u].look = "program" THEN "program" ELSE "plain"]
          /\ upload' = [upload EXCEPT ![u] =
               IF @.step = "close" THEN Stream("next") ELSE [@ EXCEPT !.step = "hash"]]
          /\ UNCHANGED strays
  /\ UNCHANGED <<named, content, download, rename, expected, shared, transfers>>

EndOfStream(u) ==
  /\ upload[u].step = "next"
  /\ upload' = [upload EXCEPT ![u].step = IF upload[u].path = NoFile THEN "done" ELSE "finalize"]
  /\ UNCHANGED <<named, content, mode, strays, download, rename, expected, shared, transfers>>

Hash(u) ==
  LET file == named[upload[u].path] IN
  /\ upload[u].step = "hash"
  /\ IF file = NoFile THEN Fail(u)
     ELSE /\ upload' = [upload EXCEPT ![u] = [@ EXCEPT !.step = "done", !.sha256 = content[file]]]
          /\ UNCHANGED strays
  /\ UNCHANGED <<named, content, mode, download, rename, expected, shared, transfers>>

(* The stream breaks, or what it does with the file fails. *)
UploadBreaks(u) ==
  /\ upload[u].step \in {"next", "write", "close", "finalize", "hash"} /\ Fail(u)
  /\ UNCHANGED <<named, content, mode, download, rename, expected, shared, transfers>>
-----------------------------------------------------------------------------
(* The length is asked for first; the file is opened when the stream is    *)
(* first polled, and the last byte is told by that length.                 *)
StartDownload(d) == \E f \in ManagedFiles, start \in 0..MaxFileSize :
  LET i == named[f]
      writers == {u \in Uploads : Active(u) /\ upload[u].file = i}
  IN
  /\ download[d].step = "none" /\ i # NoFile
  /\ Len(content[i]) <= MaxFileSize
  /\ transfers < MaxTransfers /\ transfers' = transfers + 1
  /\ download' = [download EXCEPT ![d] =
       [step |-> "open", path |-> f, file |-> i, total |-> Len(content[i]), start |-> start,
        got |-> << >>, was |-> content[i]]]
  /\ shared' = IF writers = {} /\ \A w \in strays : w.file # i THEN shared ELSE shared \cup {d}
  /\ UNCHANGED <<named, content, mode, upload, strays, rename, expected>>

OpenDownload(d) ==
  /\ download[d].step = "open"
  /\ LET i == named[download[d].path] IN
     download' = [download EXCEPT
       ![d].step = IF i = NoFile THEN "failed" ELSE "read", ![d].file = i]
  /\ UNCHANGED <<named, content, mode, upload, strays, rename, expected, shared, transfers>>

ReadNext(d) ==
  LET r == download[d]
      position == r.start + Len(r.got)
  IN
  /\ r.step = "read"
  /\ IF position >= Len(content[r.file])
     THEN download' = [download EXCEPT ![d].step = "completed"]
     ELSE download' = [download EXCEPT
            ![d].got = Append(@, content[r.file][position + 1]),
            ![d].step = IF position + 1 >= r.total THEN "completed" ELSE "read"]
  /\ UNCHANGED <<named, content, mode, upload, strays, rename, expected, shared, transfers>>
-----------------------------------------------------------------------------
(* rename_file looks for both names, removes what has the new one, and     *)
(* renames.  A file renamed to its own name is removed by that.            *)
RenameTo(r, step) == rename' = [rename EXCEPT ![r].step = step]

StartRename(r) == \E old, new \in ManagedFiles :
  /\ rename[r].step = "none" /\ transfers < MaxTransfers /\ transfers' = transfers + 1
  /\ rename' = [rename EXCEPT ![r] =
       [step |-> IF named[old] = NoFile THEN "done" ELSE "look", old |-> old, new |-> new]]
  /\ UNCHANGED <<named, content, mode, upload, strays, download, expected, shared>>

LookForNew(r) ==
  /\ rename[r].step = "look"
  /\ RenameTo(r, IF named[rename[r].new] = NoFile THEN "rename" ELSE "remove")
  /\ UNCHANGED <<named, content, mode, upload, strays, download, expected, shared, transfers>>

RemoveNew(r) ==
  LET new == rename[r].new IN
  /\ rename[r].step = "remove"
  /\ named' = [named EXCEPT ![new] = NoFile] /\ shared' = shared \cup Naming(new)
  /\ RenameTo(r, IF named[new] = NoFile THEN "done" ELSE "rename")
  /\ UNCHANGED <<content, mode, upload, strays, download, expected, transfers>>

MoveFile(r) ==
  LET old == rename[r].old
      new == rename[r].new
  IN
  /\ rename[r].step = "rename" /\ RenameTo(r, "done")
  /\ IF named[old] = NoFile \/ old = new THEN UNCHANGED <<named, shared>>
     ELSE /\ named' = [named EXCEPT ![new] = named[old], ![old] = NoFile]
          /\ shared' = shared \cup Naming(old) \cup Naming(new)
  /\ UNCHANGED <<content, mode, upload, strays, download, expected, transfers>>

TransferNext ==
  \/ \E u \in Uploads : \/ ReceiveChunk(u) \/ QueueChunk(u) \/ ChunkLands(u)
                        \/ LooksExecutable(u) \/ SetPermissions(u) \/ Hash(u)
                        \/ EndOfStream(u) \/ UploadBreaks(u)
  \/ StrayEnds
  \/ \E d \in Downloads : StartDownload(d) \/ OpenDownload(d) \/ ReadNext(d)
  \/ \E r \in Renames : StartRename(r) \/ LookForNew(r) \/ RemoveNew(r) \/ MoveFile(r)
-----------------------------------------------------------------------------
TransferTypeOK ==
  /\ \A i \in Inodes : Len(content[i]) <= MaxFileSize \/ Len(content[i]) <= Len(Found)
  /\ \A f \in ManagedFiles : named[f] \in Inodes \cup {NoFile}
  /\ \A u \in Uploads : upload[u].file \in Inodes \cup {NoFile}
  /\ shared \subseteq Uploads \cup Downloads

(* An upload answers with the hash of the file it found with every chunk   *)
(* in its place, though its writes were only on their way when it went on: *)
(* what it did not write over stays, a longer file keeps its end.  The     *)
(* file's mode is the one of those bytes, or the plain one if they could   *)
(* not be read.  A download is complete only with all that the file had    *)
(* from its start on.  Excepted are streams that met another upload of     *)
(* their file, a write of a file that was dropped without a flush, or a    *)
(* rename of their file.                                                   *)
TransfersAreExact ==
  /\ \A u \in Uploads \ shared : upload[u].path # NoFile =>
       /\ upload[u].step = "hash" => mode[upload[u].file] =
            IF upload[u].look = "unread" THEN "plain" ELSE ModeOf(upload[u].path, expected[u])
       /\ upload[u].step = "done" => upload[u].sha256 = expected[u]
  /\ \A d \in Downloads \ shared :
       download[d].step = "completed" =>
         LET r == download[d] IN r.got = SubSeq(r.was, r.start + 1, Len(r.was))
=============================================================================
