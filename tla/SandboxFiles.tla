---------------------------- MODULE SandboxFiles ----------------------------
(***************************************************************************)
(* One file of a workspace, read and written by path while other programs  *)
(* on the machine change the file and its folder.                          *)
(*                                                                         *)
(* The server holds on to the folder and the file it has opened, on POSIX  *)
(* by descriptors and on Windows by handles. A text is two halves, each    *)
(* known by the time it was written at: a program that edits a file in     *)
(* place writes them one by one. A path leads to one of two folders, to a  *)
(* link or nowhere, and the name in a folder to a file, a link, a folder   *)
(* or nothing. The server works on one path at a time, without pausing,    *)
(* but other programs do not wait for it.                                  *)
(***************************************************************************)
EXTENDS Naturals

CONSTANTS
    Folders,     \* folders the path of the file may lead to
    Inodes,      \* files there is room for
    Systems,     \* operating systems: "posix", "windows"
    MaxTime      \* bound: changes made to files and folders

VARIABLES
    system,      \* what the server runs on
    path,        \* where the path leads: a folder, "link" or "none"
    entry,       \* what each folder holds by the file's name
    temp,        \* the temporary file in each folder, or "none"
    file,        \* the files: halves of the text, last change, names they have
    now,         \* counts changes
    op           \* the operation under way

sandVars == <<system, path, entry, temp, file, now, op>>

NoFile == [halves |-> <<0, 0>>, changed |-> 0, links |-> 0]
Rest == [pc |-> "rest", does |-> "none", new |-> FALSE, held |-> "none", fd |-> "none",
         before |-> 0, got |-> <<0, 0>>]
Others == {"none", "link", "folder"}

Texts == [1..2 -> 0..MaxTime]
Operation ==
    [pc : {"rest", "opened", "first", "second", "third", "temp", "half", "full", "checked",
           "placed", "read"},
     does : {"none", "read", "write", "delete", "rmdir", "mkdir"}, new : BOOLEAN,
     held : Folders \cup {"none"}, fd : Inodes \cup {"none"}, before : 0..MaxTime, got : Texts]

SandboxTypeOK ==
    /\ system \in Systems
    /\ path \in Folders \cup {"link", "none"}
    /\ entry \in [Folders -> Inodes \cup Others]
    /\ temp \in [Folders -> Inodes \cup {"none"}]
    /\ now \in 0..MaxTime
    /\ file \in [Inodes -> [halves : Texts, changed : 0..now, links : 0..2]]
    /\ op \in Operation

SandboxInit ==
    /\ system \in Systems
    /\ path \in Folders
    /\ entry = [f \in Folders |-> "none"]
    /\ temp = [f \in Folders |-> "none"]
    /\ file = [i \in Inodes |-> NoFile]
    /\ now = 0
    /\ op = Rest

Tick == now < MaxTime /\ now' = now + 1
Fresh(i) == file[i] = NoFile /\ \A f \in Folders : entry[f] # i /\ temp[f] # i
Usable(e) == e \in Inodes /\ file[e].links = 1
At(pc) == op.pc = pc
Goes(pc) == op' = [op EXCEPT !.pc = pc]
Server == UNCHANGED <<system, path, now>>

-----------------------------------------------------------------------------
(* Other programs.                                                          *)

EditInPlace(i) ==
    /\ (\E f \in Folders : entry[f] = i) \/ (op.does = "read" /\ op.fd = i)
    /\ Tick
    /\ \E h \in {1, 2} : file' = [file EXCEPT ![i].halves[h] = now', ![i].changed = now']
    /\ UNCHANGED <<system, path, entry, temp, op>>

PutFile(f) ==
    /\ entry[f] \in Others \ {"folder"} /\ Tick
    /\ \E i \in Inodes, links \in {1, 2} :
          /\ Fresh(i)
          /\ entry' = [entry EXCEPT ![f] = i]
          /\ file' = [file EXCEPT ![i] = [halves |-> <<now', now'>>, changed |-> now', links |-> links]]
    /\ UNCHANGED <<system, path, temp, op>>

\* The name goes; the file stays as long as it is open.
PutOther(f) ==
    /\ Tick
    /\ \E e \in Others \ {entry[f]} : entry' = [entry EXCEPT ![f] = e]
    /\ UNCHANGED <<system, path, temp, file, op>>

MoveFolder ==
    /\ Tick
    /\ path' \in (Folders \cup {"link", "none"}) \ {path}
    /\ UNCHANGED <<system, entry, temp, file, op>>

-----------------------------------------------------------------------------
(* Opening the folder, component by component, following no link. A write   *)
(* makes the folders that are missing.                                      *)

Refuse == op' = Rest /\ UNCHANGED <<entry, temp, file>> /\ Server

OpenFolder(does, new) ==
    /\ op.pc = "rest"
    /\ IF path \in Folders
       THEN op' = [Rest EXCEPT !.pc = "opened", !.does = does, !.new = new, !.held = path]
            /\ UNCHANGED <<system, path, entry, temp, file, now>>
       ELSE \/ ~(does = "write" /\ path = "none") /\ Refuse
            \/ /\ does = "write" /\ path = "none" /\ Tick
               /\ \E f \in Folders :
                    /\ entry[f] = "none" /\ temp[f] = "none"
                    /\ path' = f
                    /\ op' = [Rest EXCEPT !.pc = "opened", !.does = does, !.new = new, !.held = f]
               /\ UNCHANGED <<system, entry, temp, file>>

Target == entry[op.held]

-----------------------------------------------------------------------------
(* snapshot: the file as it was at one time.                                *)

OpenFile ==
    /\ At("opened") /\ op.does = "read"
    /\ IF Usable(Target)
       THEN /\ op' = [op EXCEPT !.pc = "first", !.fd = Target, !.before = file[Target].changed]
            /\ UNCHANGED <<entry, temp, file>> /\ Server
       ELSE Refuse

ReadHalf(pc, h, next) ==
    /\ At(pc)
    /\ op' = [op EXCEPT !.pc = next, !.got[h] = file[op.fd].halves[h]]
    /\ UNCHANGED <<entry, temp, file>> /\ Server

AlwaysSame == TRUE \* mutant
SameIdentity == file[op.fd].changed = op.before

AnswerRead ==
    /\ At("third")
    /\ IF SameIdentity THEN Goes("read") /\ UNCHANGED <<entry, temp, file>> /\ Server ELSE Refuse

-----------------------------------------------------------------------------
(* write_bytes: a temporary file beside the target takes its name.          *)

\* A target that is a link, a folder or has a second name is refused, and any
\* target if the write is to create it.
Acceptable(e) == e = "none" \/ (Usable(e) /\ ~op.new)

MakeTemp ==
    /\ At("opened") /\ op.does = "write" /\ now < MaxTime
    /\ IF Acceptable(Target) /\ \E i \in Inodes : Fresh(i)
       THEN \E i \in Inodes :
              /\ Fresh(i)
              /\ temp' = [temp EXCEPT ![op.held] = i]
              /\ file' = [file EXCEPT ![i] = [halves |-> <<0, 0>>, changed |-> now, links |-> 1]]
              /\ op' = [op EXCEPT !.pc = "temp", !.fd = i]
              /\ UNCHANGED entry /\ Server
       ELSE Refuse

\* What is written is known by the time of its first half.
FillTemp ==
    /\ At("temp") /\ Tick
    /\ file' = [file EXCEPT ![op.fd].halves[1] = now', ![op.fd].changed = now']
    /\ op' = [op EXCEPT !.pc = "half", !.before = now']
    /\ UNCHANGED <<system, path, entry, temp>>

SyncTemp ==
    /\ At("half")
    /\ file' = [file EXCEPT ![op.fd].halves[2] = op.before]
    /\ Goes("full")
    /\ UNCHANGED <<entry, temp>> /\ Server

\* However the write ends, its temporary file goes.
DropTemp == temp' = [temp EXCEPT ![op.held] = "none"]
GiveUp ==
    /\ op' = Rest
    /\ DropTemp
    /\ file' = [file EXCEPT ![op.fd] = NoFile]
    /\ UNCHANGED entry /\ Server

CheckAgain ==
    /\ At("full")
    /\ IF path = op.held /\ Acceptable(Target)
       THEN Goes("checked") /\ UNCHANGED <<entry, temp, file>> /\ Server
       ELSE GiveUp

Place ==
    /\ entry' = [entry EXCEPT ![op.held] = op.fd]
    /\ DropTemp
    /\ Goes("placed")
    /\ UNCHANGED file /\ Server

\* os.replace: whatever has come to the name meanwhile, but a folder.
PosixReplace ==
    /\ At("checked") /\ system = "posix"
    /\ IF Target = "folder" THEN GiveUp ELSE Place

\* A rename that replaces only what may be replaced.
WindowsRename ==
    /\ At("checked") /\ system = "windows"
    /\ IF Target = "folder" \/ (op.new /\ Target # "none") THEN GiveUp ELSE Place

\* The file is opened again for its size; if it has gone, the answer is 404.
AnswerWrite ==
    /\ At("placed")
    /\ op' = Rest
    /\ UNCHANGED <<entry, temp, file>> /\ Server

-----------------------------------------------------------------------------
(* delete, delete_empty_directory and mkdir.                                *)

\* unlink takes a link or one of two names like any file.
PosixDelete ==
    /\ At("opened") /\ op.does = "delete" /\ system = "posix"
    /\ IF Target = "folder" THEN Refuse
       ELSE /\ entry' = [entry EXCEPT ![op.held] = "none"]
            /\ op' = Rest
            /\ UNCHANGED <<temp, file>> /\ Server

\* The file is opened first, and only a usable one is.
WindowsDelete ==
    /\ At("opened") /\ op.does = "delete" /\ system = "windows"
    /\ IF Usable(Target) \/ Target = "none"
       THEN /\ entry' = [entry EXCEPT ![op.held] = "none"]
            /\ op' = Rest
            /\ UNCHANGED <<temp, file>> /\ Server
       ELSE Refuse

DeleteEmptyFolder ==
    /\ At("opened") /\ op.does = "rmdir"
    /\ \/ Target \in {"folder", "none"}
          /\ entry' = [entry EXCEPT ![op.held] = "none"]
          /\ op' = Rest
          /\ UNCHANGED <<temp, file>> /\ Server
       \/ Target # "none" /\ Refuse

MakeFolder ==
    /\ At("opened") /\ op.does = "mkdir"
    /\ IF Target = "none" \/ (Target = "folder" /\ ~op.new)
       THEN /\ entry' = [entry EXCEPT ![op.held] = "folder"]
            /\ op' = Rest
            /\ UNCHANGED <<temp, file>> /\ Server
       ELSE Refuse

ReadAnswered ==
    /\ At("read")
    /\ op' = Rest
    /\ UNCHANGED <<system, path, entry, temp, file, now>>

\* The process ends: a temporary file stays where it was.
Crash ==
    /\ op.pc \notin {"rest", "read"}
    /\ op' = Rest
    /\ UNCHANGED <<system, path, entry, temp, file, now>>

ServerStep ==
    \/ \E does \in {"read", "write", "delete", "rmdir", "mkdir"}, new \in BOOLEAN : OpenFolder(does, new)
    \/ OpenFile \/ ReadHalf("first", 1, "second") \/ ReadHalf("second", 2, "third") \/ AnswerRead
    \/ MakeTemp \/ FillTemp \/ SyncTemp \/ CheckAgain \/ PosixReplace \/ WindowsRename \/ AnswerWrite
    \/ PosixDelete \/ WindowsDelete \/ DeleteEmptyFolder \/ MakeFolder
    \/ ReadAnswered \/ Crash

OtherStep ==
    \/ \E i \in Inodes : EditInPlace(i)
    \/ \E f \in Folders : PutFile(f) \/ PutOther(f)
    \/ MoveFolder

SandboxNext == ServerStep \/ OtherStep
SandboxSpec == SandboxInit /\ [][SandboxNext]_sandVars

-----------------------------------------------------------------------------

Whole(i, text) == file[i].halves = <<text, text>>

(* A read answers with a text the file had at one time, never with halves of *)
(* two; a write brings to the name the whole text that was asked for or      *)
(* changes nothing there, whenever it is interrupted and whatever others do; *)
(* and on Windows a file that was to be created replaces nothing.            *)
WholeTextsOnly ==
    /\ op'.pc = "read" /\ op.pc # "read" => op.got = file[op.fd].halves
    /\ op.pc # "rest" /\ op'.pc # op.pc =>
          \A f \in Folders : entry'[f] # entry[f] =>
             /\ f = op.held
             /\ entry'[f] \in Inodes => /\ op.does = "write" /\ entry'[f] = op.fd
                                        /\ op.new /\ system = "windows" => entry[f] = "none"
                                        /\ Whole(op.fd, op.before)
TextsAreWhole == [][WholeTextsOnly]_sandVars
=============================================================================
