----------------------------- MODULE Artifacts ------------------------------
(***************************************************************************)
(* The artifact registry (app/services/artifact_registry.py) and the tools *)
(* that read it (app/tools/artifacts.py).  The thread that finalizes a     *)
(* process registers its output and scans the worktree                     *)
(* (_register_process_artifacts in app/services/process_manager.py);       *)
(* list_artifacts scans too.  Scans run side by side, while processes      *)
(* write the files that are scanned, hashed, registered and read.          *)
(***************************************************************************)
EXTENDS Integers, FiniteSets, Sequences

CONSTANTS
  Files,           \* the files the patterns match, in the order of the scan
  Prefixes,        \* <<p, q>>: the name of file q begins with that of p
  Outputs,         \* captured output of processes, outside the worktree
  Scanners,        \* threads that scan
  OutputOf,        \* the output a scanner registers first, or NoFile
  Contents,        \* what a file may contain
  Size,            \* bytes of each content
  NoFile,          \* a file that does not exist, and no output
  MaxSize,         \* _MAX_AUTO_DISCOVER_SIZE
  MaxDiscover,     \* _MAX_AUTO_DISCOVER
  MaxWrites        \* bound: writes to files

Paths == {Files[i] : i \in DOMAIN Files} \cup Outputs

ASSUME ArtifactsAssumption ==
  /\ Files \in Seq(Paths) /\ Prefixes \subseteq Paths \X Paths
  /\ OutputOf \in [Scanners -> Outputs \cup {NoFile}]
  /\ (\A c \in Contents : Size[c] \in Nat) /\ NoFile \notin Contents \cup Paths
  /\ MaxSize \in Nat /\ MaxDiscover \in Nat \ {0} /\ MaxWrites \in Nat

VARIABLES
  file,            \* the content of each path
  copies,          \* how many artifacts are registered for a path and a content
  scan,            \* where each scanner is
  viewing,         \* a view_artifact between its check and its answer
  served,          \* what was last read or viewed
  writes

artifacts_vars == <<file, copies, scan, viewing, served, writes>>

-----------------------------------------------------------------------------

Rows == {r \in Paths \X Contents : copies[r] > 0}

(* at: "idle", or the next thing to do with the file of the index.         *)
Resting == [at |-> "idle", index |-> 0, total |-> 0, found |-> 0, hash |-> NoFile]
None == [row |-> NoFile, content |-> NoFile, moved |-> FALSE]

ArtifactsInit ==
  /\ file \in [Paths -> {NoFile} \cup Contents]
  /\ copies = [r \in Paths \X Contents |-> 0]
  /\ scan = [t \in Scanners |-> Resting]
  /\ viewing = None /\ served = None /\ writes = 0

Put(t, s) == scan' = [scan EXCEPT ![t] = s]
PathAt(t) == IF scan[t].index = 0 THEN OutputOf[t] ELSE Files[scan[t].index]

(* The next file, unless there is none or enough were found.               *)
Onward(s) ==
  IF s.index = Len(Files) \/ s.found >= MaxDiscover THEN Resting
  ELSE [s EXCEPT !.at = "look", !.index = @ + 1, !.hash = NoFile]

-----------------------------------------------------------------------------
(* A process changes, creates or removes a file.                           *)
Write(p, c) ==
  /\ writes < MaxWrites /\ writes' = writes + 1
  /\ c # file[p]
  /\ file' = [file EXCEPT ![p] = c]
  /\ viewing' = IF viewing.row # NoFile /\ viewing.row[1] = p
                THEN [viewing EXCEPT !.moved = TRUE] ELSE viewing
  /\ UNCHANGED <<copies, scan, served>>

(* A scan begins, that of a process with its output, if there is any.      *)
BeginScan(t) ==
  /\ scan[t].at = "idle"
  /\ Put(t, IF OutputOf[t] # NoFile /\ file[OutputOf[t]] # NoFile
            THEN [Resting EXCEPT !.at = "hash"] ELSE Onward(Resting))
  /\ UNCHANGED <<file, copies, viewing, served, writes>>

(* A file is skipped when a registered path begins with its name; that of  *)
(* a longer name does, too.                                                *)
Registered(p) == \E r \in Rows : r[1] = p \/ <<p, r[1]>> \in Prefixes

SkipAndCount(t) ==
  /\ scan[t].at = "look" /\ Registered(PathAt(t))
  /\ Put(t, Onward([scan[t] EXCEPT !.found = @ + 1]))
  /\ UNCHANGED <<file, copies, viewing, served, writes>>

Skip(t) ==
  /\ scan[t].at = "look" /\ Registered(PathAt(t))
  /\ Put(t, Onward(scan[t]))
  /\ UNCHANGED <<file, copies, viewing, served, writes>>

(* Its size is added up; a sum above the limit ends the scan (that of each *)
(* later pattern at its first file).                                       *)
Measure(t) ==
  /\ scan[t].at = "look" /\ ~ Registered(PathAt(t))
  /\ LET c == file[PathAt(t)]
         s == scan[t]
     IN Put(t, IF c = NoFile \/ Size[c] = 0 THEN Onward(s)
               ELSE IF s.total + Size[c] > MaxSize THEN Resting
               ELSE [s EXCEPT !.at = "hash", !.total = @ + Size[c]])
  /\ UNCHANGED <<file, copies, viewing, served, writes>>

(* Its content is hashed, if it can be read.                               *)
Hash(t) ==
  /\ scan[t].at = "hash"
  /\ Put(t, IF file[PathAt(t)] = NoFile THEN Onward(scan[t])
            ELSE [scan[t] EXCEPT !.at = "register", !.hash = file[PathAt(t)]])
  /\ UNCHANGED <<file, copies, viewing, served, writes>>

(* register_artifact under _REGISTRY_LOCK: an artifact of this path and    *)
(* content is returned, else one is inserted; a scan counts both.          *)
InsertedAgain(p, c) == [copies EXCEPT ![<<p, c>>] = IF @ < 2 THEN @ + 1 ELSE @]

Inserted(p, c) == [copies EXCEPT ![<<p, c>>] = IF @ = 0 THEN 1 ELSE @]

Register(t) ==
  /\ scan[t].at = "register"
  /\ copies' = Inserted(PathAt(t), scan[t].hash)
  /\ Put(t, Onward([scan[t] EXCEPT !.found = IF scan[t].index = 0 THEN @ ELSE @ + 1]))
  /\ UNCHANGED <<file, viewing, served, writes>>

-----------------------------------------------------------------------------
(* read_artifact hashes what it returns; view_artifact hashes the image    *)
(* and has view_image read it again.                                       *)
ReadUnchecked(r) ==
  /\ r \in Rows /\ file[r[1]] # NoFile
  /\ served' = [row |-> r, content |-> file[r[1]], moved |-> FALSE]
  /\ UNCHANGED <<file, copies, scan, viewing, writes>>

ReadArtifact(r) ==
  /\ r \in Rows /\ file[r[1]] = r[2]
  /\ served' = [row |-> r, content |-> file[r[1]], moved |-> FALSE]
  /\ UNCHANGED <<file, copies, scan, viewing, writes>>

ViewArtifact(r) ==
  /\ viewing = None
  /\ r \in Rows /\ r[1] \notin Outputs /\ file[r[1]] = r[2]
  /\ viewing' = [row |-> r, content |-> NoFile, moved |-> FALSE]
  /\ UNCHANGED <<file, copies, scan, served, writes>>

ViewImage ==
  /\ viewing # None /\ viewing' = None
  /\ served' = IF file[viewing.row[1]] = NoFile THEN served
               ELSE [viewing EXCEPT !.content = file[viewing.row[1]]]
  /\ UNCHANGED <<file, copies, scan, writes>>

Scan(t) == Skip(t) \/ Measure(t) \/ Hash(t) \/ Register(t)

ArtifactsNext ==
  \/ \E p \in Paths, c \in {NoFile} \cup Contents : Write(p, c)
  \/ \E t \in Scanners : BeginScan(t) \/ Scan(t)
  \/ \E r \in Paths \X Contents : ReadArtifact(r) \/ ViewArtifact(r)
  \/ ViewImage

ArtifactsSpec == ArtifactsInit /\ [][ArtifactsNext]_artifacts_vars

(* Threads go on, and somebody lists the artifacts again and again.        *)
ArtifactsFairSpec == ArtifactsSpec /\ \A t \in Scanners : WF_artifacts_vars(BeginScan(t) \/ Scan(t))

-----------------------------------------------------------------------------

ArtifactsTypeOK ==
  /\ file \in [Paths -> {NoFile} \cup Contents]
  /\ copies \in [Paths \X Contents -> 0 .. 2]
  /\ \A t \in Scanners : scan[t].index \in 0 .. Len(Files) /\ scan[t].total <= MaxSize
  /\ writes \in 0 .. MaxWrites

(* However many threads find a file at once, and whatever is written       *)
(* meanwhile, a path and content have one artifact; and no artifact is     *)
(* served with another content, except an image that was changed between   *)
(* the check of view_artifact and its answer.                              *)
OneArtifactEach ==
  /\ ArtifactsTypeOK
  /\ \A r \in Paths \X Contents : copies[r] <= 1
  /\ served # None /\ served.content # served.row[2] => served.moved

(* A file is in the way of those after it when it alone exceeds the limit. *)
InTheWay(i) ==
  /\ ~ Registered(Files[i]) /\ file[Files[i]] # NoFile
  /\ Size[file[Files[i]]] > MaxSize

(* Once no file changes any more, repeated scans register every file,      *)
(* however few one scan may register, unless a file above the limit is in  *)
(* the way.                                                                *)
EverythingIsFound ==
  \A i \in DOMAIN Files :
    <>[](\/ Registered(Files[i]) \/ file[Files[i]] = NoFile \/ Size[file[Files[i]]] = 0
         \/ \E j \in 1 .. i : InTheWay(j))
=============================================================================
