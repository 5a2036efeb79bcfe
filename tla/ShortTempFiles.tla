--------------------------- MODULE ShortTempFiles ---------------------------
(***************************************************************************)
(* src/src/utils/short_temp_files.rs: the files of the mock executables.   *)
(* They have names of two characters, so that their path fits over the     *)
(* path of any command, and lie in /tmp, which every scriptkeeper, every   *)
(* other program and a cleaner of old files share.  A name is tried after  *)
(* the other until one can be created; a ShortTempFile removes its path    *)
(* when it is dropped, whatever is there by then.                          *)
(***************************************************************************)
EXTENDS Naturals, Sequences, FiniteSets

CONSTANTS
    Keeper,       \* the scriptkeepers that run
    Other,        \* any other program that writes to the directory
    NoFile,       \* no file, no name
    Digits,       \* the number of characters of a name's alphabet
    Taken,        \* the names that are in use all the time
    OtherName,    \* the names that other programs use now and then
    MaxCreated,   \* bound on the files each scriptkeeper creates
    Killed,       \* the scriptkeepers that a signal may end
    MaxCleaned,   \* bound on the names under which a cleaner removes files
    Io            \* may a system call of a scriptkeeper fail?

ASSUME ShortTempFilesAssumption ==
    /\ Other \notin Keeper
    /\ Digits \in Nat \ {0}
    /\ Taken \cup OtherName \subseteq (1..Digits) \X (1..Digits)
    /\ MaxCreated \in [Keeper -> Nat]
    /\ NoFile \notin [owner : Keeper \cup {Other}, serial : Nat, written : BOOLEAN]
    /\ NoFile \notin (1..Digits) \X (1..Digits)
    /\ Killed \subseteq Keeper
    /\ MaxCleaned \in Nat
    /\ Io \in BOOLEAN

VARIABLES
    files,        \* the directory: what each name names
    pc,           \* what each scriptkeeper is doing
    names,        \* its iterator Names
    opened,       \* the name of the file it has open
    temporary_executables,  \* its ShortTempFiles: their names and serials
    failure,      \* why it ends, or "none"
    created,      \* the number of files it created so far
    freed,        \* history: the names that became free while it tries names
    cleaned       \* history: the names the cleaner removed

fileVars == <<files, pc, names, opened, temporary_executables, failure, created, freed, cleaned>>

Name  == (1..Digits) \X (1..Digits)
Inode == [owner : Keeper \cup {Other}, serial : Nat, written : BOOLEAN]
TempFile == [name : Name, serial : Nat]

-----------------------------------------------------------------------------
(***************************************************************************)
(* The iterator Names: two iterators over the same characters, old_a is    *)
(* the character that the first one gave last.                             *)
(***************************************************************************)
NewNames == [old_a |-> 1, a |-> 2, b |-> 1]

Exhausted(i) == i.b > Digits /\ i.a > Digits

\* When b has given all its characters a gives its next one and b starts anew.
Carried(i) == IF i.b <= Digits THEN i ELSE [old_a |-> i.a, a |-> i.a + 1, b |-> 1]

NextName(i) == <<Carried(i).old_a, Carried(i).b>>

\* Broken: b starts anew only once it is empty and a character of it is lost.
SkipsFirst(i) ==
    IF i.b <= Digits THEN [i EXCEPT !.b = @ + 1] ELSE [old_a |-> i.a, a |-> i.a + 1, b |-> 3]

Advanced(i) == [Carried(i) EXCEPT !.b = @ + 1]

-----------------------------------------------------------------------------
\* ShortTempFile::new.
New(k) ==
    /\ pc[k] = "idle"
    /\ created[k] < MaxCreated[k]
    /\ pc' = [pc EXCEPT ![k] = "naming"]
    /\ names' = [names EXCEPT ![k] = NewNames]
    /\ UNCHANGED <<files, opened, temporary_executables, failure, created, freed, cleaned>>

Create(k, n) ==
    /\ files' = [files EXCEPT ![n] = [owner |-> k, serial |-> created[k] + 1, written |-> FALSE]]
    /\ created' = [created EXCEPT ![k] = @ + 1]
    /\ opened' = [opened EXCEPT ![k] = n]
    /\ pc' = [pc EXCEPT ![k] = "writing"]
    /\ freed' = [freed EXCEPT ![k] = {}]
    /\ UNCHANGED <<names, temporary_executables, failure, cleaned>>

\* Broken: the file is opened with create(true) instead of create_new(true).
TryNameTruncating(k) ==
    /\ pc[k] = "naming"
    /\ ~Exhausted(names[k])
    /\ Create(k, NextName(names[k]))

\* try_create_new_file: create_new is O_EXCL, one system call.
TryName(k) ==
    /\ pc[k] = "naming"
    /\ ~Exhausted(names[k])
    /\ LET n == NextName(names[k]) IN
       \/ files[n] = NoFile /\ Create(k, n)
       \/ /\ files[n] # NoFile
          /\ names' = [names EXCEPT ![k] = Advanced(@)]
          /\ UNCHANGED <<files, pc, opened, temporary_executables, failure, created, freed, cleaned>>

\* An error is returned; on its way out the mock is dropped.
Fails(k, why) ==
    /\ pc' = [pc EXCEPT ![k] = "dropping"]
    /\ opened' = [opened EXCEPT ![k] = NoFile]
    /\ failure' = [failure EXCEPT ![k] = why]
    /\ freed' = [freed EXCEPT ![k] = {}]
    /\ UNCHANGED <<files, names, temporary_executables, created, cleaned>>

RanOut(k) ==
    /\ pc[k] = "naming"
    /\ Exhausted(names[k])
    /\ Fails(k, "ran_out")

\* open, write_all or flush fails: there is no ShortTempFile yet that would
\* remove the file.
IoFails(k) ==
    /\ Io
    /\ pc[k] \in {"naming", "writing"}
    /\ Fails(k, "io")

\* The contents are written to the file that was opened, even if it is no longer
\* in the directory.
WriteContents(k) ==
    LET n == opened[k] file == [owner |-> k, serial |-> created[k], written |-> FALSE] IN
    /\ pc[k] = "writing"
    /\ files' = IF files[n] = file THEN [files EXCEPT ![n].written = TRUE] ELSE files
    /\ temporary_executables' = [temporary_executables EXCEPT
            ![k] = Append(@, [name |-> n, serial |-> created[k]])]
    /\ opened' = [opened EXCEPT ![k] = NoFile]
    /\ pc' = [pc EXCEPT ![k] = "idle"]
    /\ UNCHANGED <<names, failure, created, freed, cleaned>>

\* The checker is dropped: at the end of a run, or at a hole.
DropMock(k) ==
    /\ pc[k] = "idle"
    /\ temporary_executables[k] # <<>>
    /\ pc' = [pc EXCEPT ![k] = "dropping"]
    /\ UNCHANGED <<files, names, opened, temporary_executables, failure, created, freed, cleaned>>

Frees(n) ==
    /\ files' = [files EXCEPT ![n] = NoFile]
    /\ freed' = [k \in Keeper |-> IF pc[k] = "naming" THEN freed[k] \cup {n} ELSE freed[k]]

\* Drop for ShortTempFile, of the first one in the vector.  The other ones are
\* still dropped if it panics, but a panic during a panic aborts.
DropFile(k) ==
    LET n == Head(temporary_executables[k]).name IN
    /\ pc[k] = "dropping"
    /\ temporary_executables[k] # <<>>
    /\ temporary_executables' = [temporary_executables EXCEPT ![k] = Tail(@)]
    /\ \/ /\ files[n] # NoFile
          /\ Frees(n)
          /\ UNCHANGED <<pc, failure>>
       \/ /\ files[n] = NoFile
          /\ failure' = [failure EXCEPT ![k] = IF @ \in {"panic", "abort"} THEN "abort" ELSE "panic"]
          /\ pc' = [pc EXCEPT ![k] = IF failure[k] = "panic" THEN "stopped" ELSE @]
          /\ UNCHANGED <<files, freed>>
    /\ UNCHANGED <<names, opened, created, cleaned>>

\* The next run begins, or scriptkeeper ends.
AllDropped(k) ==
    /\ pc[k] = "dropping"
    /\ temporary_executables[k] = <<>>
    /\ pc' = [pc EXCEPT ![k] = IF failure[k] = "none" THEN "idle" ELSE "stopped"]
    /\ UNCHANGED <<files, names, opened, temporary_executables, failure, created, freed, cleaned>>

\* A signal ends scriptkeeper; nothing is dropped.
KeeperKilled(k) ==
    /\ k \in Killed
    /\ pc[k] # "stopped"
    /\ pc' = [pc EXCEPT ![k] = "stopped"]
    /\ failure' = [failure EXCEPT ![k] = "killed"]
    /\ freed' = [freed EXCEPT ![k] = {}]
    /\ UNCHANGED <<files, names, opened, temporary_executables, created, cleaned>>

-----------------------------------------------------------------------------
(***************************************************************************)
(* The others that use the directory.                                      *)
(***************************************************************************)
OtherFile == [owner |-> Other, serial |-> 0, written |-> TRUE]

OtherCreates(n) ==
    /\ n \in OtherName
    /\ files[n] = NoFile
    /\ files' = [files EXCEPT ![n] = OtherFile]
    /\ UNCHANGED <<pc, names, opened, temporary_executables, failure, created, freed, cleaned>>

OtherRemoves(n) ==
    /\ n \in OtherName
    /\ files[n] # NoFile
    /\ files[n].owner = Other
    /\ Frees(n)
    /\ UNCHANGED <<pc, names, opened, temporary_executables, failure, created, cleaned>>

Clean(n) ==
    /\ Cardinality(cleaned) < MaxCleaned
    /\ files[n] # NoFile
    /\ Frees(n)
    /\ cleaned' = cleaned \cup {n}
    /\ UNCHANGED <<pc, names, opened, temporary_executables, failure, created>>

-----------------------------------------------------------------------------
FilesInit ==
    /\ files = [n \in Name |-> IF n \in Taken THEN OtherFile ELSE NoFile]
    /\ pc = [k \in Keeper |-> "idle"]
    /\ names = [k \in Keeper |-> NewNames]
    /\ opened = [k \in Keeper |-> NoFile]
    /\ temporary_executables = [k \in Keeper |-> <<>>]
    /\ failure = [k \in Keeper |-> "none"]
    /\ created = [k \in Keeper |-> 0]
    /\ freed = [k \in Keeper |-> {}]
    /\ cleaned = {}

KeeperStep(k) ==
    \/ New(k) \/ TryName(k) \/ RanOut(k) \/ IoFails(k) \/ WriteContents(k)
    \/ DropMock(k) \/ DropFile(k) \/ AllDropped(k) \/ KeeperKilled(k)

OthersStep == \E n \in Name : OtherCreates(n) \/ OtherRemoves(n) \/ Clean(n)

FilesNext == (\E k \in Keeper : KeeperStep(k)) \/ OthersStep

FilesSpec == FilesInit /\ [][FilesNext]_fileVars

-----------------------------------------------------------------------------
Iterator == [old_a : 1..Digits, a : 2..(Digits + 1), b : 1..(Digits + 1)]

\* Every variable has its type.
FilesTypeOK ==
    /\ files \in [Name -> Inode \cup {NoFile}]
    /\ pc \in [Keeper -> {"idle", "naming", "writing", "dropping", "stopped"}]
    /\ names \in [Keeper -> Iterator]
    /\ opened \in [Keeper -> Name \cup {NoFile}]
    /\ temporary_executables \in [Keeper -> Seq(TempFile)]
    /\ failure \in [Keeper -> {"none", "ran_out", "io", "panic", "abort", "killed"}]
    /\ created \in [Keeper -> Nat]
    /\ freed \in [Keeper -> SUBSET Name]
    /\ cleaned \subseteq Name

(***************************************************************************)
(* The path of a mock executable names the file that was made for it, with *)
(* its contents, until the mock is dropped: neither another scriptkeeper   *)
(* nor a later mock of the same one takes its name, unless a cleaner       *)
(* removed it.                                                             *)
(***************************************************************************)
MockIsOwn ==
    \A k \in Keeper : \A i \in DOMAIN temporary_executables[k] :
        LET mock == temporary_executables[k][i] IN
        mock.name \notin cleaned =>
            files[mock.name] = [owner |-> k, serial |-> mock.serial, written |-> TRUE]

(***************************************************************************)
(* No step of a scriptkeeper removes or overwrites a file that another     *)
(* scriptkeeper or another program made, unless its own file was cleaned   *)
(* away and the name used again: files are removed by their path.          *)
(***************************************************************************)
Moves(k) ==
    <<pc[k], names[k], temporary_executables[k], created[k]>>'
        # <<pc[k], names[k], temporary_executables[k], created[k]>>

KeepsForeignFiles ==
    \A k \in Keeper, n \in Name :
        Moves(k) /\ files[n] # NoFile /\ n \notin cleaned /\ files'[n] # files[n] =>
            files[n].owner = k

ForeignFilesKept == [][KeepsForeignFiles]_fileVars

(***************************************************************************)
(* "ran out of temporary file names" is true: while a scriptkeeper tries   *)
(* the names, each that it gave up is still taken, or became free behind   *)
(* its back; once the iterator is exhausted these are all names.           *)
(***************************************************************************)
Tried(k) ==
    IF pc[k] # "naming" THEN {}
    ELSE IF Exhausted(names[k]) THEN Name
    ELSE {n \in Name : \/ n[1] < names[k].old_a
                       \/ n[1] = names[k].old_a /\ n[2] < names[k].b}

RanOutMeansFull ==
    \A k \in Keeper : \A n \in Tried(k) : files[n] # NoFile \/ n \in freed[k]
=============================================================================
