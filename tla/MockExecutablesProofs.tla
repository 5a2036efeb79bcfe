------------------------ MODULE MockExecutablesProofs ------------------------
(***************************************************************************)
(* Proofs about the mock executables.  First ShortTempFiles by itself, for *)
(* any number of scriptkeepers that share the directory with other         *)
(* programs and a cleaner, any alphabet and any number of files; then what *)
(* TraceeMemory reads and writes in words of four bytes; then              *)
(* MockExecutables, for any number of processes, any size of the memory,   *)
(* any image, commands, buffers and directories.                           *)
(***************************************************************************)
EXTENDS MockExecutables, SequenceTheorems, WellFoundedInduction, TLAPS

-----------------------------------------------------------------------------
(***************************************************************************)
(* The iterator.  Its first character is one behind that of the inner      *)
(* iterator; each name it gives is the next one in the order of names.     *)
(***************************************************************************)
Before(i) == {n \in Name : n[1] < i.old_a \/ (n[1] = i.old_a /\ n[2] < i.b)}

LEMMA NewNamesType ==
    /\ NewNames \in Iterator /\ NewNames.a = NewNames.old_a + 1
    /\ ~Exhausted(NewNames) /\ Before(NewNames) = {}
BY ShortTempFilesAssumption DEF NewNames, Iterator, Exhausted, Before, Name

LEMMA CarriedType ==
    ASSUME NEW i \in Iterator, i.a = i.old_a + 1, ~Exhausted(i)
    PROVE  /\ Carried(i) \in Iterator
           /\ Carried(i).a = Carried(i).old_a + 1
           /\ Carried(i).b <= Digits
           /\ NextName(i) \in Name
           /\ Before(Carried(i)) = Before(i)
<1>1. CASE i.b <= Digits
  BY <1>1, ShortTempFilesAssumption DEF Iterator, Carried, NextName, Name
<1>2. CASE ~(i.b <= Digits)
  <2>1. Carried(i) = [old_a |-> i.a, a |-> i.a + 1, b |-> 1]
    BY <1>2 DEF Carried
  <2>2. i.a \in 1..Digits /\ i.b = Digits + 1
    BY <1>2, ShortTempFilesAssumption DEF Iterator, Exhausted
  <2>3. Before(Carried(i)) = Before(i)
    BY <2>1, <2>2, ShortTempFilesAssumption DEF Before, Name, Iterator
  <2> QED BY <2>1, <2>2, <2>3, ShortTempFilesAssumption DEF Iterator, NextName, Name
<1> QED BY <1>1, <1>2

LEMMA AdvancedType ==
    ASSUME NEW i \in Iterator, i.a = i.old_a + 1, ~Exhausted(i)
    PROVE  /\ Advanced(i) \in Iterator
           /\ Advanced(i).a = Advanced(i).old_a + 1
           /\ Before(Advanced(i)) = Before(i) \cup {NextName(i)}
<1> DEFINE c == Carried(i)
<1>1. /\ c \in Iterator /\ c.a = c.old_a + 1 /\ c.b <= Digits
      /\ NextName(i) = <<c.old_a, c.b>> /\ NextName(i) \in Name /\ Before(c) = Before(i)
  BY CarriedType DEF NextName
<1> HIDE DEF c
<1>2. Advanced(i) = [c EXCEPT !.b = @ + 1]
  BY DEF Advanced, c
<1>3. Advanced(i) = [old_a |-> c.old_a, a |-> c.a, b |-> c.b + 1]
  BY <1>1, <1>2 DEF Iterator
<1>4. Before(Advanced(i)) = Before(c) \cup {<<c.old_a, c.b>>}
  BY <1>1, <1>3, ShortTempFilesAssumption DEF Before, Name, Iterator
<1> QED BY <1>1, <1>3, <1>4, ShortTempFilesAssumption DEF Iterator

\* An iterator that is exhausted has given all names.
LEMMA ExhaustedIsAll ==
    ASSUME NEW i \in Iterator, i.a = i.old_a + 1, Exhausted(i)
    PROVE  Before(i) = Name
BY ShortTempFilesAssumption DEF Iterator, Exhausted, Before, Name

-----------------------------------------------------------------------------
(***************************************************************************)
(* Type correctness.                                                       *)
(***************************************************************************)
Steady == \A k \in Keeper : names[k].a = names[k].old_a + 1

WritesOpened == \A k \in Keeper : pc[k] = "writing" => opened[k] \in Name

FilesTyped == FilesTypeOK /\ Steady /\ WritesOpened

LEMMA OtherFileType == OtherFile \in Inode
BY DEF OtherFile, Inode

LEMMA FreesType ==
    ASSUME FilesTypeOK, NEW n \in Name, Frees(n)
    PROVE  files' \in [Name -> Inode \cup {NoFile}] /\ freed' \in [Keeper -> SUBSET Name]
BY DEF FilesTypeOK, Frees

LEMMA FilesTypedInit == FilesInit => FilesTyped
<1> SUFFICES ASSUME FilesInit PROVE FilesTyped
  OBVIOUS
<1>1. <<>> \in Seq(TempFile)
  OBVIOUS
<1>2. files \in [Name -> Inode \cup {NoFile}]
  BY OtherFileType DEF FilesInit
<1> QED BY <1>1, <1>2, NewNamesType DEF FilesInit, FilesTyped, FilesTypeOK, Steady, WritesOpened

LEMMA FilesTypedNext == FilesTyped /\ [FilesNext]_fileVars => FilesTyped'
<1> SUFFICES ASSUME FilesTyped, [FilesNext]_fileVars PROVE FilesTyped'
  OBVIOUS
<1> USE DEF FilesTyped, FilesTypeOK, Steady, WritesOpened
<1>1. ASSUME NEW k \in Keeper, New(k) PROVE FilesTyped'
  BY <1>1, NewNamesType DEF New
<1>2. ASSUME NEW k \in Keeper, TryName(k) PROVE FilesTyped'
  <2>1. NextName(names[k]) \in Name
    BY <1>2, CarriedType DEF TryName
  <2>2. CASE Create(k, NextName(names[k]))
    <3>1. [owner |-> k, serial |-> created[k] + 1, written |-> FALSE] \in Inode
      BY DEF Inode
    <3> QED BY <2>1, <2>2, <3>1 DEF Create
  <2>3. CASE names' = [names EXCEPT ![k] = Advanced(@)]
             /\ UNCHANGED <<files, pc, opened, temporary_executables, failure, created, freed, cleaned>>
    <3>1. Advanced(names[k]) \in Iterator /\ Advanced(names[k]).a = Advanced(names[k]).old_a + 1
      BY <1>2, AdvancedType DEF TryName
    <3> QED BY <2>3, <3>1
  <2> QED BY <1>2, <2>2, <2>3 DEF TryName
<1>3. ASSUME NEW k \in Keeper, RanOut(k) PROVE FilesTyped'
  BY <1>3 DEF RanOut, Fails
<1>4. ASSUME NEW k \in Keeper, IoFails(k) PROVE FilesTyped'
  BY <1>4 DEF IoFails, Fails
<1>5. ASSUME NEW k \in Keeper, WriteContents(k) PROVE FilesTyped'
  <2> DEFINE n == opened[k]
             added == [name |-> n, serial |-> created[k]]
  <2>0. n \in Name
    BY <1>5 DEF WriteContents
  <2>1. files' \in [Name -> Inode \cup {NoFile}]
    <3> DEFINE file == [owner |-> k, serial |-> created[k], written |-> FALSE]
    <3>1. CASE files[n] = file
      <4>1. [file EXCEPT !.written = TRUE] \in Inode
        BY DEF Inode
      <4>2. files' = [files EXCEPT ![n] = [file EXCEPT !.written = TRUE]]
        BY <1>5, <3>1 DEF WriteContents
      <4> QED BY <2>0, <4>1, <4>2
    <3>2. CASE files[n] # file
      BY <1>5, <3>2 DEF WriteContents
    <3> QED BY <3>1, <3>2
  <2>2. added \in TempFile
    BY <2>0 DEF TempFile
  <2>3. Append(temporary_executables[k], added) \in Seq(TempFile)
    BY <2>2, AppendProperties
  <2>4. temporary_executables' \in [Keeper -> Seq(TempFile)]
    BY <1>5, <2>3 DEF WriteContents
  <2> QED BY <1>5, <2>1, <2>4 DEF WriteContents
<1>6. ASSUME NEW k \in Keeper, DropMock(k) PROVE FilesTyped'
  BY <1>6 DEF DropMock
<1>7. ASSUME NEW k \in Keeper, DropFile(k) PROVE FilesTyped'
  <2>1. /\ Head(temporary_executables[k]) \in TempFile
        /\ Tail(temporary_executables[k]) \in Seq(TempFile)
    BY <1>7, HeadTailProperties DEF DropFile
  <2>2. Head(temporary_executables[k]).name \in Name
    BY <2>1 DEF TempFile
  <2>3. files' \in [Name -> Inode \cup {NoFile}] /\ freed' \in [Keeper -> SUBSET Name]
    BY <1>7, <2>2, FreesType DEF DropFile
  <2>4. temporary_executables' \in [Keeper -> Seq(TempFile)]
    BY <1>7, <2>1 DEF DropFile
  <2> QED BY <1>7, <2>3, <2>4 DEF DropFile
<1>8. ASSUME NEW k \in Keeper, AllDropped(k) PROVE FilesTyped'
  BY <1>8 DEF AllDropped
<1>9. ASSUME NEW k \in Keeper, KeeperKilled(k) PROVE FilesTyped'
  BY <1>9 DEF KeeperKilled
<1>10. ASSUME NEW n \in Name, OtherCreates(n) PROVE FilesTyped'
  BY <1>10, OtherFileType DEF OtherCreates
<1>11. ASSUME NEW n \in Name, OtherRemoves(n) PROVE FilesTyped'
  BY <1>11, FreesType DEF OtherRemoves
<1>12. ASSUME NEW n \in Name, Clean(n) PROVE FilesTyped'
  BY <1>12, FreesType DEF Clean
<1>13. CASE UNCHANGED fileVars
  BY <1>13 DEF fileVars
<1> QED BY <1>1, <1>2, <1>3, <1>4, <1>5, <1>6, <1>7, <1>8, <1>9, <1>10, <1>11, <1>12, <1>13
        DEF FilesNext, KeeperStep, OthersStep

-----------------------------------------------------------------------------
(***************************************************************************)
(* Ownership.  A scriptkeeper numbers its files; the numbers of its mocks  *)
(* rise, so that no two mocks have the same file, and the file that it is  *)
(* writing is that of no mock.                                             *)
(***************************************************************************)
SerialsRise ==
    \A k \in Keeper : \A i \in DOMAIN temporary_executables[k] :
        /\ temporary_executables[k][i].serial <= created[k]
        /\ pc[k] = "writing" => temporary_executables[k][i].serial < created[k]
        /\ \A j \in DOMAIN temporary_executables[k] :
            i < j => temporary_executables[k][i].serial < temporary_executables[k][j].serial

WrittenIsOwn ==
    \A k \in Keeper :
        pc[k] = "writing" /\ opened[k] \notin cleaned =>
            files[opened[k]] = [owner |-> k, serial |-> created[k], written |-> FALSE]

Owned == SerialsRise /\ WrittenIsOwn /\ MockIsOwn

LEMMA MockType ==
    ASSUME FilesTypeOK, NEW k \in Keeper, NEW i \in DOMAIN temporary_executables[k]
    PROVE  /\ temporary_executables[k][i] \in TempFile
           /\ temporary_executables[k][i].name \in Name
           /\ temporary_executables[k][i].serial \in Nat
<1>1. temporary_executables[k][i] \in TempFile
  BY ElementOfSeq DEF FilesTypeOK
<1> QED BY <1>1 DEF TempFile

\* What a mock or an open file names is there, and owned.
Owns(k, n, written) ==
    files[n] # NoFile /\ files[n].owner = k /\ files[n].written = written

LEMMA FileIsThere ==
    ASSUME NEW k \in Keeper, NEW s \in Nat, NEW w \in BOOLEAN
    PROVE  [owner |-> k, serial |-> s, written |-> w] # NoFile
<1>1. [owner |-> k, serial |-> s, written |-> w] \in [owner : Keeper \cup {Other}, serial : Nat, written : BOOLEAN]
  OBVIOUS
<1> QED BY <1>1, ShortTempFilesAssumption

LEMMA FileIsOwned ==
    ASSUME NEW k \in Keeper, NEW s \in Nat, NEW w \in BOOLEAN, NEW n,
           files[n] = [owner |-> k, serial |-> s, written |-> w]
    PROVE  Owns(k, n, w)
BY FileIsThere DEF Owns

LEMMA MockIsThere ==
    ASSUME Owned, FilesTyped, NEW k \in Keeper, NEW i \in DOMAIN temporary_executables[k],
           temporary_executables[k][i].name \notin cleaned
    PROVE  Owns(k, temporary_executables[k][i].name, TRUE)
BY FileIsOwned, MockType DEF Owned, MockIsOwn, FilesTyped

LEMMA OpenedIsThere ==
    ASSUME Owned, FilesTyped, NEW k \in Keeper, pc[k] = "writing", opened[k] \notin cleaned
    PROVE  Owns(k, opened[k], FALSE)
<1>1. created[k] \in Nat
  BY DEF FilesTyped, FilesTypeOK
<1> QED BY <1>1, FileIsOwned DEF Owned, WrittenIsOwn

\* Unless a cleaner interferes the names of all mocks are different.
LEMMA NamesDiffer ==
    ASSUME Owned, FilesTyped,
           NEW k \in Keeper, NEW i \in DOMAIN temporary_executables[k],
           NEW l \in Keeper, NEW j \in DOMAIN temporary_executables[l],
           temporary_executables[k][i].name = temporary_executables[l][j].name,
           temporary_executables[k][i].name \notin cleaned
    PROVE  k = l /\ i = j
<1> DEFINE n == temporary_executables[k][i].name
           s == temporary_executables[k][i].serial
           t == temporary_executables[l][j].serial
<1>1. /\ files[n] = [owner |-> k, serial |-> s, written |-> TRUE]
      /\ files[n] = [owner |-> l, serial |-> t, written |-> TRUE]
  BY DEF Owned, MockIsOwn
<1>2. files[n].owner = k /\ files[n].owner = l /\ files[n].serial = s /\ files[n].serial = t
  BY <1>1
<1>3. k = l /\ s = t
  BY <1>2
<1>4. i \in Nat /\ j \in Nat /\ s \in Nat
  BY MockType DEF FilesTyped, FilesTypeOK
<1>5. ~(i < j) /\ ~(j < i)
  BY <1>3, <1>4 DEF Owned, SerialsRise
<1> QED BY <1>3, <1>4, <1>5

\* A step that neither touches the directory nor opens a file.
LEMMA QuietStep ==
    ASSUME Owned, UNCHANGED <<files, temporary_executables, created, cleaned>>,
           \A k \in Keeper : pc'[k] = "writing" => pc[k] = "writing" /\ opened'[k] = opened[k]
    PROVE  Owned'
BY DEF Owned, SerialsRise, WrittenIsOwn, MockIsOwn

\* The name of a file that belongs to no mock, or was cleaned, changes.
LEMMA ForeignStep ==
    ASSUME Owned, FilesTyped, NEW n \in Name, NEW f,
           \/ files[n] = NoFile
           \/ files[n].owner = Other
           \/ n \in cleaned',
           files' = [files EXCEPT ![n] = f],
           cleaned \subseteq cleaned',
           UNCHANGED <<temporary_executables, created, pc, opened>>
    PROVE  Owned'
<1>1. SerialsRise'
  BY DEF Owned, SerialsRise
<1>2. ASSUME NEW m \in Name \ cleaned', NEW k \in Keeper, NEW w \in BOOLEAN, Owns(k, m, w)
      PROVE  files'[m] = files[m]
  BY <1>2, ShortTempFilesAssumption DEF FilesTyped, FilesTypeOK, Owns
<1>3. MockIsOwn'
  <2> SUFFICES ASSUME NEW k \in Keeper, NEW i \in DOMAIN temporary_executables[k],
                      temporary_executables[k][i].name \notin cleaned'
               PROVE  files'[temporary_executables[k][i].name] = files[temporary_executables[k][i].name]
    BY DEF Owned, MockIsOwn
  <2>1. temporary_executables[k][i].name \in Name \ cleaned'
    BY MockType DEF FilesTyped
  <2> QED BY <2>1, <1>2, MockIsThere
<1>4. WrittenIsOwn'
  <2> SUFFICES ASSUME NEW k \in Keeper, pc[k] = "writing", opened[k] \notin cleaned'
               PROVE  files'[opened[k]] = files[opened[k]]
    BY DEF Owned, WrittenIsOwn
  <2>1. opened[k] \in Name \ cleaned'
    BY DEF FilesTyped, WritesOpened
  <2> QED BY <2>1, <1>2, OpenedIsThere
<1> QED BY <1>1, <1>3, <1>4 DEF Owned

LEMMA CreateOwned ==
    ASSUME Owned, FilesTyped, NEW k \in Keeper, NEW n \in Name, pc[k] = "naming",
           files[n] = NoFile, Create(k, n)
    PROVE  Owned'
<1>1. created[k] \in Nat
  BY DEF FilesTyped, FilesTypeOK
<1>2. ASSUME NEW m \in Name \ cleaned, NEW l \in Keeper, NEW w \in BOOLEAN, Owns(l, m, w)
      PROVE  m # n /\ files'[m] = files[m]
  BY <1>2 DEF FilesTyped, FilesTypeOK, Owns, Create
<1>3. SerialsRise'
  <2> SUFFICES ASSUME NEW l \in Keeper, NEW i \in DOMAIN temporary_executables[l]
               PROVE  /\ temporary_executables[l][i].serial <= created'[l]
                      /\ pc'[l] = "writing" => temporary_executables[l][i].serial < created'[l]
    BY DEF Create, Owned, SerialsRise
  <2>1. temporary_executables[l][i].serial \in Nat /\ temporary_executables[l][i].serial <= created[l]
    BY MockType DEF Owned, SerialsRise, FilesTyped
  <2>2. CASE l = k
    BY <1>1, <2>1, <2>2 DEF Create, FilesTyped, FilesTypeOK
  <2>3. CASE l # k
    BY <2>1, <2>3 DEF Create, Owned, SerialsRise, FilesTyped, FilesTypeOK
  <2> QED BY <2>2, <2>3
<1>4. WrittenIsOwn'
  <2> SUFFICES ASSUME NEW l \in Keeper, pc'[l] = "writing", opened'[l] \notin cleaned
               PROVE  files'[opened'[l]] = [owner |-> l, serial |-> created'[l], written |-> FALSE]
    BY DEF WrittenIsOwn, Create
  <2>1. CASE l = k
    BY <2>1 DEF Create, FilesTyped, FilesTypeOK
  <2>2. CASE l # k
    <3>1. /\ pc[l] = "writing" /\ opened'[l] = opened[l] /\ created'[l] = created[l]
          /\ opened[l] \in Name \ cleaned
      BY <2>2 DEF Create, FilesTyped, FilesTypeOK, WritesOpened
    <3>2. files'[opened[l]] = files[opened[l]]
      BY <3>1, <1>2, OpenedIsThere
    <3> QED BY <3>1, <3>2 DEF Owned, WrittenIsOwn
  <2> QED BY <2>1, <2>2
<1>5. MockIsOwn'
  <2> SUFFICES ASSUME NEW l \in Keeper, NEW i \in DOMAIN temporary_executables[l],
                      temporary_executables[l][i].name \notin cleaned
               PROVE  files'[temporary_executables[l][i].name] = files[temporary_executables[l][i].name]
    BY SMTT(20) DEF Create, Owned, MockIsOwn
  <2>1. temporary_executables[l][i].name \in Name \ cleaned
    BY MockType DEF FilesTyped
  <2> QED BY <2>1, <1>2, MockIsThere
<1> QED BY <1>3, <1>4, <1>5 DEF Owned

\* The file that is written becomes the last mock.
LEMMA WriteOwned ==
    ASSUME Owned, FilesTyped, NEW k \in Keeper, WriteContents(k)
    PROVE  Owned'
<1> DEFINE te == temporary_executables
           n == opened[k]
           added == [name |-> n, serial |-> created[k]]
           file == [owner |-> k, serial |-> created[k], written |-> FALSE]
<1>1. /\ n \in Name /\ created[k] \in Nat /\ te[k] \in Seq(TempFile) /\ added \in TempFile
      /\ pc[k] = "writing" /\ pc'[k] = "idle"
  BY DEF WriteContents, FilesTyped, FilesTypeOK, WritesOpened, TempFile
<1>2. /\ te'[k] = Append(te[k], added)
      /\ DOMAIN te'[k] = DOMAIN te[k] \cup {Len(te[k]) + 1}
      /\ \A i \in DOMAIN te[k] : te'[k][i] = te[k][i]
      /\ te'[k][Len(te[k]) + 1] = added
      /\ \A l \in Keeper \ {k} : te'[l] = te[l]
  BY <1>1, AppendProperties DEF WriteContents, FilesTyped, FilesTypeOK
<1>3. Len(te[k]) \in Nat /\ DOMAIN te[k] = 1..Len(te[k])
  BY <1>1
<1>4. \A m \in Name : m # n => files'[m] = files[m]
  BY DEF WriteContents, FilesTyped, FilesTypeOK
<1>5. ASSUME n \notin cleaned PROVE files'[n] = [owner |-> k, serial |-> created[k], written |-> TRUE]
  <2>1. files[n] = file
    BY <1>1, <1>5 DEF Owned, WrittenIsOwn
  <2>2. files' = [files EXCEPT ![n] = [file EXCEPT !.written = TRUE]]
    BY <2>1 DEF WriteContents
  <2> QED BY <2>2, <1>1 DEF FilesTyped, FilesTypeOK
<1>6. \A l \in Keeper \ {k} : pc'[l] = pc[l] /\ opened'[l] = opened[l]
  BY DEF WriteContents, FilesTyped, FilesTypeOK
<1>7. created' = created /\ cleaned' = cleaned
  BY DEF WriteContents
<1> HIDE DEF added, te
<1>8. added.serial = created[k] /\ added.name = n
  BY DEF added
<1>9. SerialsRise'
  <2>1. ASSUME NEW l \in Keeper \ {k} PROVE \A i \in DOMAIN te'[l] :
            /\ te'[l][i].serial <= created'[l]
            /\ pc'[l] = "writing" => te'[l][i].serial < created'[l]
            /\ \A j \in DOMAIN te'[l] : i < j => te'[l][i].serial < te'[l][j].serial
    BY <1>2, <1>6, <1>7 DEF Owned, SerialsRise, te
  <2>2. \A i \in DOMAIN te[k] : te[k][i].serial \in Nat /\ te[k][i].serial < created[k]
    BY <1>1, MockType DEF Owned, SerialsRise, te, FilesTyped
  <2>3. \A i, j \in DOMAIN te[k] : i < j => te[k][i].serial < te[k][j].serial
    BY DEF Owned, SerialsRise, te
  <2>4. \A i \in DOMAIN te'[k] :
            /\ te'[k][i].serial <= created[k]
            /\ \A j \in DOMAIN te'[k] : i < j => te'[k][i].serial < te'[k][j].serial
    BY <1>1, <1>2, <1>3, <1>8, <2>2, <2>3
  <2> QED BY <2>1, <2>4, <1>1, <1>7 DEF SerialsRise, te
<1>10. WrittenIsOwn'
  <2> SUFFICES ASSUME NEW l \in Keeper \ {k}, pc[l] = "writing", opened[l] \notin cleaned
               PROVE  files'[opened[l]] = files[opened[l]]
    BY <1>1, <1>6, <1>7 DEF Owned, WrittenIsOwn
  <2>1. Owns(l, opened[l], FALSE) /\ opened[l] \in Name
    BY OpenedIsThere DEF FilesTyped, WritesOpened
  <2>2. n = opened[l] => Owns(k, n, FALSE)
    BY <1>1, OpenedIsThere
  <2> QED BY <2>1, <2>2, <1>4 DEF Owns
<1>11. MockIsOwn'
  <2>1. ASSUME NEW l \in Keeper, NEW i \in DOMAIN te[l], te[l][i].name \notin cleaned
        PROVE  files'[te[l][i].name] = [owner |-> l, serial |-> te[l][i].serial, written |-> TRUE]
    <3>1. Owns(l, te[l][i].name, TRUE) /\ te[l][i].name \in Name
      BY <2>1, MockIsThere, MockType DEF te, FilesTyped
    <3>2. n = te[l][i].name => Owns(k, n, FALSE)
      BY <1>1, <2>1, OpenedIsThere
    <3>3. files'[te[l][i].name] = files[te[l][i].name]
      BY <3>1, <3>2, <1>4 DEF Owns
    <3> QED BY <3>3, <2>1 DEF Owned, MockIsOwn, te
  <2>2. n \notin cleaned =>
          files'[added.name] = [owner |-> k, serial |-> added.serial, written |-> TRUE]
    BY <1>5, <1>8
  <2>3. ASSUME NEW l \in Keeper, NEW i \in DOMAIN te'[l], te'[l][i].name \notin cleaned
        PROVE  files'[te'[l][i].name] = [owner |-> l, serial |-> te'[l][i].serial, written |-> TRUE]
    <3>1. CASE l # k
      BY <3>1, <2>1, <2>3, <1>2, SMTT(20)
    <3>2. CASE l = k /\ i \in DOMAIN te[k]
      BY <3>2, <2>1, <2>3, <1>2
    <3>3. CASE l = k /\ i = Len(te[k]) + 1
      BY <3>3, <2>2, <2>3, <1>2, <1>8
    <3> QED BY <3>1, <3>2, <3>3, <1>2
  <2> QED BY <2>3, <1>7 DEF MockIsOwn, te
<1> QED BY <1>9, <1>10, <1>11 DEF Owned

\* The first mock is dropped, and no other one had its name.
LEMMA DropOwned ==
    ASSUME Owned, FilesTyped, NEW k \in Keeper, DropFile(k)
    PROVE  Owned'
<1> DEFINE te == temporary_executables
           n == Head(te[k]).name
<1>1. /\ te[k] \in Seq(TempFile) /\ te[k] # <<>> /\ Head(te[k]) = te[k][1] /\ 1 \in DOMAIN te[k]
      /\ pc[k] = "dropping" /\ n \in Name
  BY MockType DEF DropFile, FilesTyped, FilesTypeOK
<1>2. /\ DOMAIN te'[k] = 1..(Len(te[k]) - 1)
      /\ \A i \in DOMAIN te'[k] : i + 1 \in DOMAIN te[k] /\ te'[k][i] = te[k][i + 1]
      /\ \A l \in Keeper \ {k} : te'[l] = te[l]
  BY <1>1, HeadTailProperties DEF DropFile, FilesTyped, FilesTypeOK
<1>3. created' = created /\ cleaned' = cleaned /\ opened' = opened
  BY DEF DropFile
<1>4. \A l \in Keeper : pc'[l] = "writing" => pc[l] = "writing" /\ l # k
  BY <1>1 DEF DropFile, FilesTyped, FilesTypeOK
<1>5. \A m \in Name : m # n => files'[m] = files[m]
  BY DEF DropFile, Frees, FilesTyped, FilesTypeOK
<1>6. \A l \in Keeper : \A i \in DOMAIN te'[l] : \E j \in DOMAIN te[l] :
            te'[l][i] = te[l][j] /\ ~(l = k /\ j = 1)
  <2>1. ASSUME NEW i \in DOMAIN te'[k] PROVE i + 1 \in DOMAIN te[k] /\ te'[k][i] = te[k][i + 1] /\ i + 1 # 1
    BY <1>2
  <2> QED BY <2>1, <1>2
<1> HIDE DEF te
<1>7. SerialsRise'
  <2>1. ASSUME NEW l \in Keeper, NEW i \in DOMAIN te'[l]
        PROVE  te'[l][i].serial <= created[l] /\ (pc'[l] = "writing" => te'[l][i].serial < created[l])
    BY <1>4, <1>6 DEF Owned, SerialsRise, te
  <2>2. ASSUME NEW l \in Keeper, NEW i \in DOMAIN te'[l], NEW j \in DOMAIN te'[l], i < j
        PROVE  te'[l][i].serial < te'[l][j].serial
    <3>1. CASE l = k
      <4>1. i \in Nat /\ j \in Nat /\ i + 1 < j + 1
        BY <1>2, <2>2, <3>1
      <4> QED BY <3>1, <4>1, <1>2 DEF Owned, SerialsRise, te
    <3>2. CASE l # k
      BY <2>2, <3>2, <1>2 DEF Owned, SerialsRise, te
    <3> QED BY <3>1, <3>2
  <2> QED BY <2>1, <2>2, <1>3 DEF SerialsRise, te
<1>8. WrittenIsOwn'
  <2> SUFFICES ASSUME NEW l \in Keeper, pc[l] = "writing", opened[l] \notin cleaned
               PROVE  files'[opened[l]] = files[opened[l]]
    BY <1>3, <1>4 DEF Owned, WrittenIsOwn
  <2>1. Owns(l, opened[l], FALSE) /\ opened[l] \in Name
    BY OpenedIsThere DEF FilesTyped, WritesOpened
  <2>2. n \notin cleaned => Owns(k, n, TRUE)
    BY <1>1, MockIsThere DEF te
  <2> QED BY <2>1, <2>2, <1>5 DEF Owns
<1>9. MockIsOwn'
  <2> SUFFICES ASSUME NEW l \in Keeper, NEW i \in DOMAIN te[l], ~(l = k /\ i = 1),
                      te[l][i].name \notin cleaned
               PROVE  files'[te[l][i].name] = files[te[l][i].name]
    BY <1>3, <1>6 DEF Owned, MockIsOwn, te
  <2>1. te[l][i].name # n
    BY <1>1, NamesDiffer DEF te
  <2> QED BY <2>1, <1>5, MockType DEF te, FilesTyped
<1> QED BY <1>7, <1>8, <1>9 DEF Owned

LEMMA OwnedInit == FilesInit => Owned
BY DEF FilesInit, Owned, SerialsRise, WrittenIsOwn, MockIsOwn

LEMMA OwnedNext == Owned /\ FilesTyped /\ [FilesNext]_fileVars => Owned'
<1> SUFFICES ASSUME Owned, FilesTyped, [FilesNext]_fileVars PROVE Owned'
  OBVIOUS
<1> USE DEF FilesTyped, FilesTypeOK
<1>1. ASSUME NEW k \in Keeper, New(k) PROVE Owned'
  BY <1>1, QuietStep DEF New
<1>2. ASSUME NEW k \in Keeper, TryName(k) PROVE Owned'
  <2>1. NextName(names[k]) \in Name
    BY <1>2, CarriedType DEF TryName, Steady
  <2>2. CASE files[NextName(names[k])] = NoFile /\ Create(k, NextName(names[k]))
    BY <1>2, <2>1, <2>2, CreateOwned DEF TryName
  <2>3. CASE UNCHANGED <<files, pc, opened, temporary_executables, failure, created, freed, cleaned>>
    BY <2>3, QuietStep
  <2> QED BY <1>2, <2>2, <2>3 DEF TryName
<1>3. ASSUME NEW k \in Keeper, RanOut(k) \/ IoFails(k) PROVE Owned'
  <2>1. \E why \in {"ran_out", "io"} : Fails(k, why)
    BY <1>3 DEF RanOut, IoFails
  <2> QED BY <2>1, QuietStep DEF Fails
<1>4. ASSUME NEW k \in Keeper, WriteContents(k) PROVE Owned'
  BY <1>4, WriteOwned
<1>5. ASSUME NEW k \in Keeper, DropMock(k) PROVE Owned'
  BY <1>5, QuietStep DEF DropMock
<1>6. ASSUME NEW k \in Keeper, DropFile(k) PROVE Owned'
  BY <1>6, DropOwned
<1>7. ASSUME NEW k \in Keeper, AllDropped(k) PROVE Owned'
  BY <1>7, QuietStep DEF AllDropped
<1>8. ASSUME NEW k \in Keeper, KeeperKilled(k) PROVE Owned'
  BY <1>8, QuietStep DEF KeeperKilled
<1>9. ASSUME NEW n \in Name, OtherCreates(n) PROVE Owned'
  BY <1>9, ForeignStep DEF OtherCreates
<1>10. ASSUME NEW n \in Name, OtherRemoves(n) PROVE Owned'
  BY <1>10, ForeignStep DEF OtherRemoves, Frees
<1>11. ASSUME NEW n \in Name, Clean(n) PROVE Owned'
  BY <1>11, ForeignStep DEF Clean, Frees
<1>12. CASE UNCHANGED fileVars
  BY <1>12, QuietStep DEF fileVars
<1> QED BY <1>1, <1>2, <1>3, <1>4, <1>5, <1>6, <1>7, <1>8, <1>9, <1>10, <1>11, <1>12
        DEF FilesNext, KeeperStep, OthersStep

-----------------------------------------------------------------------------
(***************************************************************************)
(* Running out of names.                                                   *)
(***************************************************************************)
LEMMA TriedIsBefore ==
    ASSUME FilesTyped, NEW k \in Keeper
    PROVE  Tried(k) = IF pc[k] = "naming" THEN Before(names[k]) ELSE {}
BY ExhaustedIsAll DEF FilesTyped, FilesTypeOK, Steady, Tried, Before

LEMMA FreesMore ==
    ASSUME NEW n, Frees(n), NEW k \in Keeper
    PROVE  freed[k] \subseteq freed'[k]
<1>1. freed'[k] = freed[k] \/ freed'[k] = freed[k] \cup {n}
  BY DEF Frees
<1> QED BY <1>1

\* What was tried stays taken, or is noted as freed.
LEMMA TriedStaysTaken ==
    ASSUME RanOutMeansFull, FilesTyped, FilesTyped', NEW k \in Keeper,
           pc'[k] = "naming" =>
                /\ pc[k] = "naming" /\ names'[k] = names[k]
                /\ freed[k] \subseteq freed'[k]
                /\ \A n \in Name : files'[n] = NoFile => files[n] = NoFile \/ n \in freed'[k]
    PROVE  \A n \in Tried(k)' : files'[n] # NoFile \/ n \in freed'[k]
<1>1. Tried(k)' = IF pc'[k] = "naming" THEN Before(names'[k]) ELSE {}
  BY ExhaustedIsAll DEF FilesTyped, FilesTypeOK, Steady, Tried, Before
<1>2. Tried(k) = IF pc[k] = "naming" THEN Before(names[k]) ELSE {}
  BY TriedIsBefore
<1> QED BY <1>1, <1>2 DEF RanOutMeansFull, Before

LEMMA FullInit == FilesInit => RanOutMeansFull
BY DEF FilesInit, RanOutMeansFull, Tried

LEMMA FullNext ==
    RanOutMeansFull /\ FilesTyped /\ FilesTyped' /\ [FilesNext]_fileVars => RanOutMeansFull'
<1> SUFFICES ASSUME RanOutMeansFull, FilesTyped, FilesTyped', [FilesNext]_fileVars,
                    NEW l \in Keeper
             PROVE  \A n \in Tried(l)' : files'[n] # NoFile \/ n \in freed'[l]
  BY DEF RanOutMeansFull
<1> DEFINE Goal == \A n \in Tried(l)' : files'[n] # NoFile \/ n \in freed'[l]
<1> USE DEF FilesTyped, FilesTypeOK
<1>1. ASSUME NEW k \in Keeper, New(k) PROVE Goal
  <2>1. CASE l = k
    <3>1. Tried(l)' = {}
      BY <1>1, <2>1, NewNamesType DEF New, Tried, Before
    <3> QED BY <3>1
  <2>2. CASE l # k
    BY <1>1, <2>2, TriedStaysTaken DEF New
  <2> QED BY <2>1, <2>2
<1>2. ASSUME NEW k \in Keeper, TryName(k) PROVE Goal
  <2>1. /\ NextName(names[k]) \in Name
        /\ Before(Advanced(names[k])) = Before(names[k]) \cup {NextName(names[k])}
    BY <1>2, CarriedType, AdvancedType DEF TryName, Steady
  <2>2. CASE Create(k, NextName(names[k]))
    <3>0. created[k] + 1 \in Nat
      OBVIOUS
    <3>1. [owner |-> k, serial |-> created[k] + 1, written |-> FALSE] # NoFile
      BY <3>0, FileIsThere
    <3> QED BY <1>2, <2>1, <2>2, <3>1, TriedStaysTaken DEF Create, TryName
  <2>3. ASSUME files[NextName(names[k])] # NoFile,
               names' = [names EXCEPT ![k] = Advanced(@)],
               UNCHANGED <<files, pc, opened, temporary_executables, failure, created, freed, cleaned>>
        PROVE  Goal
    <3>1. CASE l = k
      <4>1. Tried(l) = Before(names[l]) /\ pc[k] = "naming"
        BY <1>2, <3>1, TriedIsBefore DEF TryName
      <4>2. Tried(l)' = Before(Advanced(names[k]))
        BY <2>3, <3>1, <4>1, ExhaustedIsAll DEF Tried, Before, Steady
      <4> QED BY <2>1, <2>3, <3>1, <4>1, <4>2 DEF RanOutMeansFull
    <3>2. CASE l # k
      BY <2>3, <3>2, TriedStaysTaken
    <3> QED BY <3>1, <3>2
  <2> QED BY <1>2, <2>2, <2>3 DEF TryName
<1>3. ASSUME NEW k \in Keeper, RanOut(k) \/ IoFails(k) PROVE Goal
  <2>1. pc'[l] = "naming" =>
            pc[l] = "naming" /\ names'[l] = names[l] /\ freed[l] \subseteq freed'[l]
    <3>1. /\ pc' = [pc EXCEPT ![k] = "dropping"] /\ freed' = [freed EXCEPT ![k] = {}]
          /\ names' = names
      BY <1>3 DEF RanOut, IoFails, Fails
    <3> QED BY <3>1
  <2>2. files' = files
    BY <1>3 DEF RanOut, IoFails, Fails
  <2> QED BY <2>1, <2>2, TriedStaysTaken
<1>4. ASSUME NEW k \in Keeper, WriteContents(k) PROVE Goal
  <2> DEFINE file == [owner |-> k, serial |-> created[k], written |-> FALSE]
  <2>1. [file EXCEPT !.written = TRUE] # NoFile
    <3>1. [file EXCEPT !.written = TRUE] \in Inode
      BY DEF Inode
    <3> QED BY <3>1, ShortTempFilesAssumption DEF Inode
  <2>2. \/ files' = files
        \/ files' = [files EXCEPT ![opened[k]] = [file EXCEPT !.written = TRUE]]
    BY <1>4 DEF WriteContents
  <2>3. \A n \in Name : files'[n] = NoFile => files[n] = NoFile
    BY <2>1, <2>2
  <2> QED BY <1>4, <2>3, TriedStaysTaken DEF WriteContents
<1>5. ASSUME NEW k \in Keeper, DropMock(k) \/ AllDropped(k) \/ KeeperKilled(k) PROVE Goal
  <2>1. pc'[l] = "naming" =>
            pc[l] = "naming" /\ names'[l] = names[l] /\ freed[l] \subseteq freed'[l]
    BY <1>5 DEF DropMock, AllDropped, KeeperKilled
  <2>2. files' = files
    BY <1>5 DEF DropMock, AllDropped, KeeperKilled
  <2> QED BY <2>1, <2>2, TriedStaysTaken
<1>6. ASSUME NEW k \in Keeper, DropFile(k) PROVE Goal
  <2>1. pc'[l] = "naming" => pc[l] = "naming" /\ names'[l] = names[l]
    BY <1>6 DEF DropFile
  <2>2. \E n : Frees(n) \/ UNCHANGED <<files, freed>>
    BY <1>6 DEF DropFile
  <2>3. \A m \in Name : files'[m] = NoFile /\ pc[l] = "naming" => files[m] = NoFile \/ m \in freed'[l]
    BY <2>2 DEF Frees
  <2>4. freed[l] \subseteq freed'[l]
    BY <2>2, FreesMore
  <2> QED BY <2>1, <2>3, <2>4, TriedStaysTaken
<1>7. ASSUME NEW n \in Name, OtherCreates(n) \/ OtherRemoves(n) \/ Clean(n) PROVE Goal
  <2>1. OtherFile # NoFile
    BY OtherFileType, ShortTempFilesAssumption DEF Inode
  <2>2. UNCHANGED <<pc, names>>
    BY <1>7 DEF OtherCreates, OtherRemoves, Clean
  <2>3. freed[l] \subseteq freed'[l]
    BY <1>7, FreesMore DEF OtherCreates, OtherRemoves, Clean
  <2>4. \A m \in Name : files'[m] = NoFile /\ pc[l] = "naming" => files[m] = NoFile \/ m \in freed'[l]
    BY <1>7, <2>1 DEF OtherCreates, OtherRemoves, Clean, Frees
  <2> QED BY <2>2, <2>3, <2>4, TriedStaysTaken
<1>8. CASE UNCHANGED fileVars
  BY <1>8, TriedStaysTaken DEF fileVars
<1> QED BY <1>1, <1>2, <1>3, <1>4, <1>5, <1>6, <1>7, <1>8 DEF FilesNext, KeeperStep, OthersStep

\* A scriptkeeper writes the file it opened and removes those of its mocks.
LEMMA ForeignKept ==
    FilesTyped /\ Owned /\ [FilesNext]_fileVars => [KeepsForeignFiles]_fileVars
<1> SUFFICES ASSUME FilesTyped, Owned, FilesNext,
                    NEW k \in Keeper, NEW n \in Name, Moves(k), files[n] # NoFile,
                    n \notin cleaned, files'[n] # files[n]
             PROVE  files[n].owner = k
  BY DEF KeepsForeignFiles
<1> USE DEF FilesTyped, FilesTypeOK
<1>1. ASSUME NEW l \in Keeper, TryName(l) PROVE FALSE
  BY <1>1, CarriedType DEF TryName, Create, Steady
<1>2. ASSUME NEW l \in Keeper, WriteContents(l) PROVE files[n].owner = k
  <2>1. l = k
    BY <1>2 DEF WriteContents, Moves
  <2>2. n = opened[k] /\ pc[k] = "writing"
    BY <1>2, <2>1 DEF WriteContents
  <2> QED BY <2>2, OpenedIsThere DEF Owns
<1>3. ASSUME NEW l \in Keeper, DropFile(l) PROVE files[n].owner = k
  <2>1. l = k
    BY <1>3 DEF DropFile, Moves
  <2>2. n = Head(temporary_executables[k]).name /\ temporary_executables[k] # <<>>
    BY <1>3, <2>1 DEF DropFile, Frees
  <2>3. n = temporary_executables[k][1].name /\ 1 \in DOMAIN temporary_executables[k]
    BY <2>2
  <2> QED BY <2>3, MockIsThere DEF Owns
<1>4. ASSUME NEW l \in Keeper,
             New(l) \/ RanOut(l) \/ IoFails(l) \/ DropMock(l) \/ AllDropped(l) \/ KeeperKilled(l)
      PROVE  FALSE
  BY <1>4 DEF New, RanOut, IoFails, Fails, DropMock, AllDropped, KeeperKilled
<1>5. ASSUME NEW m \in Name, OtherCreates(m) \/ OtherRemoves(m) \/ Clean(m) PROVE FALSE
  BY <1>5 DEF OtherCreates, OtherRemoves, Clean, Moves
<1> QED BY <1>1, <1>2, <1>3, <1>4, <1>5 DEF FilesNext, KeeperStep, OthersStep

-----------------------------------------------------------------------------
(***************************************************************************)
(* The theorems about the directory.                                       *)
(***************************************************************************)
FilesInv == FilesTyped /\ Owned /\ RanOutMeansFull

\* The invariant holds in the beginning
LEMMA FilesInvInit == FilesInit => FilesInv
BY FilesTypedInit, OwnedInit, FullInit DEF FilesInv

\* and at any time.
LEMMA FilesInvariant == FilesSpec => []FilesInv
<1>1. FilesInv /\ [FilesNext]_fileVars => FilesInv'
  BY FilesTypedNext, OwnedNext, FullNext DEF FilesInv
<1> QED BY <1>1, FilesInvInit, PTL DEF FilesSpec

\* The variables keep their types, for any number of scriptkeepers.
THEOREM FilesTypeCorrect == FilesSpec => []FilesTypeOK
BY FilesInvariant, PTL DEF FilesInv, FilesTyped

\* The path of a mock names the file that was made for it, unless it was cleaned.
THEOREM MocksAreOwned == FilesSpec => []MockIsOwn
BY FilesInvariant, PTL DEF FilesInv, Owned

\* A scriptkeeper gives up only when every name was taken when it was tried.
THEOREM RunningOutIsTrue == FilesSpec => []RanOutMeansFull
BY FilesInvariant, PTL DEF FilesInv

\* No step of a scriptkeeper changes or removes what is not its own.
THEOREM ForeignFilesAreKept == FilesSpec => ForeignFilesKept
<1>1. FilesInv /\ [FilesNext]_fileVars => [KeepsForeignFiles]_fileVars
  BY ForeignKept DEF FilesInv
<1> QED BY <1>1, FilesInvariant, PTL DEF FilesSpec, ForeignFilesKept

-----------------------------------------------------------------------------
(***************************************************************************)
(* Words and bytes.                                                        *)
(***************************************************************************)
\* The constants, as the arithmetic needs them.
LEMMA FourBytes == Word = 4 /\ Word \div 2 = 2 /\ Base \in Nat /\ Base > 1 /\ Size \in Nat
BY MockExecutablesAssumption, TraceeMemoryAssumption

\* Taking the least byte off a word.
LEMMA LeastByte ==
    ASSUME NEW b \in Byte, NEW h \in Nat
    PROVE  /\ b + Base * h \in Nat
           /\ (b + Base * h) % Base = b
           /\ (b + Base * h) \div Base = h
BY FourBytes DEF Byte

\* The shifts of a word, one after the other.
LEMMA Shifts ==
    ASSUME NEW w, NEW n \in {2, 4}
    PROVE  \E f : f = [i \in 1..n |-> IF i = 1 THEN w ELSE f[i - 1] \div Base]
<1> DEFINE B == Base
<1>1. CASE n = 2
  <2> DEFINE f == [i \in 1..2 |-> IF i = 1 THEN w ELSE w \div B]
  <2>1. f = [i \in 1..2 |-> IF i = 1 THEN w ELSE f[i - 1] \div Base]
    OBVIOUS
  <2> QED BY <1>1, <2>1
<1>2. CASE n = 4
  <2> DEFINE f == [i \in 1..4 |-> IF i = 1 THEN w ELSE IF i = 2 THEN w \div B
                     ELSE IF i = 3 THEN (w \div B) \div B ELSE ((w \div B) \div B) \div B]
  <2>1. f = [i \in 1..4 |-> IF i = 1 THEN w ELSE f[i - 1] \div Base]
    OBVIOUS
  <2> QED BY <1>2, <2>1
<1> QED BY <1>1, <1>2

\* The bytes of a word and of half a word.
LEMMA BytesAre ==
    ASSUME NEW w
    PROVE  /\ Bytes(w, 4) = [i \in 1..4 |->
                    (IF i = 1 THEN w ELSE IF i = 2 THEN w \div Base
                     ELSE IF i = 3 THEN (w \div Base) \div Base
                     ELSE ((w \div Base) \div Base) \div Base) % Base]
           /\ Bytes(w, 2) = [i \in 1..2 |-> (IF i = 1 THEN w ELSE w \div Base) % Base]
<1>1. Bytes(w, 4) = [i \in 1..4 |->
                    (IF i = 1 THEN w ELSE IF i = 2 THEN w \div Base
                     ELSE IF i = 3 THEN (w \div Base) \div Base
                     ELSE ((w \div Base) \div Base) \div Base) % Base]
  <2> DEFINE Is(f) == f = [i \in 1..4 |-> IF i = 1 THEN w ELSE f[i - 1] \div Base]
             g == CHOOSE f : Is(f)
  <2>1. Is(g)
    BY Shifts
  <2>2. Bytes(w, 4) = [i \in 1..4 |-> g[i] % Base]
    BY Zenon DEF Bytes
  <2> HIDE DEF g
  <2>3. /\ g[1] = w /\ g[2] = w \div Base /\ g[3] = (w \div Base) \div Base
        /\ g[4] = ((w \div Base) \div Base) \div Base
    BY <2>1
  <2> QED BY <2>2, <2>3
<1>2. Bytes(w, 2) = [i \in 1..2 |-> (IF i = 1 THEN w ELSE w \div Base) % Base]
  <2> DEFINE Is(f) == f = [i \in 1..2 |-> IF i = 1 THEN w ELSE f[i - 1] \div Base]
             g == CHOOSE f : Is(f)
  <2>1. Is(g)
    BY Shifts
  <2>2. Bytes(w, 2) = [i \in 1..2 |-> g[i] % Base]
    BY Zenon DEF Bytes
  <2> HIDE DEF g
  <2>3. g[1] = w /\ g[2] = w \div Base
    BY <2>1
  <2> QED BY <2>2, <2>3
<1> QED BY <1>1, <1>2

\* The word of four bytes, in Horner's form.
LEMMA WordIs ==
    ASSUME NEW b
    PROVE  WordOf(b) = b[1] + Base * (b[2] + Base * (b[3] + Base * (b[4] + Base * 0)))
<1> DEFINE Is(f) == f = [i \in 1..(Word + 1) |-> IF i = Word + 1 THEN 0 ELSE b[i] + Base * f[i + 1]]
           g == CHOOSE f : Is(f)
           d == b[4] + Base * 0
           h == [i \in 1..5 |-> IF i = 5 THEN 0 ELSE IF i = 4 THEN d
                  ELSE IF i = 3 THEN b[3] + Base * d
                  ELSE IF i = 2 THEN b[2] + Base * (b[3] + Base * d)
                  ELSE b[1] + Base * (b[2] + Base * (b[3] + Base * d))]
<1>0. Word + 1 = 5
  BY FourBytes
<1>1. Is(h)
  BY <1>0
<1>2. Is(g)
  BY <1>1
<1>3. WordOf(b) = g[1]
  BY Zenon DEF WordOf
<1> HIDE DEF g
<1>4. g[5] = 0 /\ g[4] = b[4] + Base * g[5] /\ g[3] = b[3] + Base * g[4]
      /\ g[2] = b[2] + Base * g[3] /\ g[1] = b[1] + Base * g[2]
  BY <1>0, <1>2
<1> QED BY <1>3, <1>4

Quad == [1..4 -> Byte]

\* What Bytes returns is in the range of a byte.
LEMMA BytesType ==
    ASSUME NEW w \in Nat
    PROVE  Bytes(w, 4) \in Quad /\ Bytes(w, 2) \in [1..2 -> Byte]
<1>1. \A x \in Nat : x \div Base \in Nat /\ x % Base \in Byte
  BY FourBytes DEF Byte
<1>2. /\ w \div Base \in Nat /\ (w \div Base) \div Base \in Nat
      /\ ((w \div Base) \div Base) \div Base \in Nat
  BY <1>1
<1> QED BY <1>1, <1>2, BytesAre DEF Quad

\* The bytes of a word are those it was made of.
THEOREM RoundTrip ==
    ASSUME NEW b \in Quad
    PROVE  WordOf(b) \in Nat /\ Bytes(WordOf(b), 4) = b
<1> DEFINE z == Base * 0
           t == b[4] + Base * 0
           u == b[3] + Base * t
           v == b[2] + Base * u
           w == b[1] + Base * v
<1>0. b[1] \in Byte /\ b[2] \in Byte /\ b[3] \in Byte /\ b[4] \in Byte
  BY DEF Quad
<1>1. WordOf(b) = w
  BY WordIs
<1>2. t \in Nat /\ t % Base = b[4] /\ t \div Base = 0
  BY <1>0, LeastByte
<1> HIDE DEF t
<1>3. u \in Nat /\ u % Base = b[3] /\ u \div Base = t
  BY <1>0, <1>2, LeastByte
<1> HIDE DEF u
<1>4. v \in Nat /\ v % Base = b[2] /\ v \div Base = u
  BY <1>0, <1>3, LeastByte
<1> HIDE DEF v
<1>5. w \in Nat /\ w % Base = b[1] /\ w \div Base = v
  BY <1>0, <1>4, LeastByte
<1> HIDE DEF w
<1>6. Bytes(w, 4) = [i \in 1..4 |-> b[i]]
  BY <1>2, <1>3, <1>4, <1>5, BytesAre
<1> QED BY <1>1, <1>5, <1>6 DEF Quad

-----------------------------------------------------------------------------
(***************************************************************************)
(* Words in a memory.                                                      *)
(***************************************************************************)
\* A word that is not mapped cannot be read.
LEMMA NotMapped ==
    ASSUME NEW mem, NEW a, ~Mapped(a) PROVE Peekdata(mem, a) = Fault
BY DEF Peekdata

\* A mapped word is read as the four bytes it has.
LEMMA PeekIs ==
    ASSUME NEW mem \in Memory, NEW a \in Int, Mapped(a)
    PROVE  /\ Peekdata(mem, a) \in Nat
           /\ Peekdata(mem, a) # Fault
           /\ Bytes(Peekdata(mem, a), Word) = [i \in 1..4 |-> mem[a + i - 1]]
           /\ [i \in 1..4 |-> mem[a + i - 1]] \in Quad
<1> DEFINE b == [i \in 1..4 |-> mem[a + i - 1]]
<1>1. \A i \in 1..4 : a + i - 1 \in Address
  BY FourBytes DEF Mapped, Address
<1>2. b \in Quad
  BY <1>1 DEF Quad, Memory
<1>3. Peekdata(mem, a) = WordOf(b)
  BY FourBytes DEF Peekdata
<1> HIDE DEF b
<1>4. Bytes(WordOf(b), 4) = b /\ WordOf(b) \in Nat
  BY <1>2, RoundTrip
<1> QED BY <1>2, <1>3, <1>4, FourBytes DEF Fault, b

\* What is read depends on the four bytes only.
LEMMA PeekSame ==
    ASSUME NEW mem, NEW other, NEW a, \A i \in 1..4 : mem[a + i - 1] = other[a + i - 1]
    PROVE  Peekdata(mem, a) = Peekdata(other, a)
<1>1. [i \in 1..Word |-> mem[a + i - 1]] = [i \in 1..Word |-> other[a + i - 1]]
  BY FourBytes
<1> QED BY <1>1 DEF Peekdata

\* A word is written as the bytes it was made of.
LEMMA PokeIs ==
    ASSUME NEW mem \in Memory, NEW a \in Int, NEW b \in Quad
    PROVE  /\ Pokedata(mem, a, WordOf(b)) =
                [x \in Address |-> IF x \in a..(a + 3) THEN b[x - a + 1] ELSE mem[x]]
           /\ Pokedata(mem, a, WordOf(b)) \in Memory
<1>1. Bytes(WordOf(b), Word) = b
  BY RoundTrip, FourBytes
<1>2. Pokedata(mem, a, WordOf(b)) =
        [x \in Address |-> IF x \in a..(a + Word - 1) THEN b[x - a + 1] ELSE mem[x]]
  BY <1>1, Zenon DEF Pokedata
<1>3. a + Word - 1 = a + 3
  BY FourBytes
<1>4. \A x \in Address : x \in a..(a + 3) => b[x - a + 1] \in Byte
  BY DEF Quad, Address
<1> QED BY <1>2, <1>3, <1>4 DEF Memory

\* Half a word is written without the other half.
LEMMA HalfIs ==
    ASSUME NEW mem \in Memory, NEW a \in Int, Mapped(a), NEW half \in Nat
    PROVE  /\ PokeFourBytes(mem, a, half) =
                [x \in Address |->
                    IF x \in a..(a + 1) THEN Bytes(half, 2)[x - a + 1] ELSE mem[x]]
           /\ PokeFourBytes(mem, a, half) \in Memory
<1> DEFINE old == [i \in 1..4 |-> mem[a + i - 1]]
           first == Bytes(half, 2)
           new == [i \in 1..4 |-> IF i <= 2 THEN first[i] ELSE old[i]]
<1>1. Bytes(Peekdata(mem, a), Word) = old /\ old \in Quad
  BY PeekIs
<1>2. first \in [1..2 -> Byte]
  BY BytesType
<1>3. PokeFourBytes(mem, a, half) = Pokedata(mem, a, WordOf(new))
  BY <1>1, FourBytes DEF PokeFourBytes
<1> HIDE DEF first
<1>4. new \in Quad
  BY <1>1, <1>2 DEF Quad
<1> HIDE DEF new
<1>5. /\ PokeFourBytes(mem, a, half) =
            [x \in Address |-> IF x \in a..(a + 3) THEN new[x - a + 1] ELSE mem[x]]
      /\ PokeFourBytes(mem, a, half) \in Memory
  BY <1>3, <1>4, PokeIs
<1>6. ASSUME NEW x \in Address
      PROVE  (IF x \in a..(a + 3) THEN new[x - a + 1] ELSE mem[x]) =
             (IF x \in a..(a + 1) THEN first[x - a + 1] ELSE mem[x])
  <2>1. CASE x \in a..(a + 1)
    BY <2>1 DEF new, Address
  <2>2. CASE x \in (a + 2)..(a + 3)
    <3>1. x - a + 1 \in 1..4 /\ ~(x - a + 1 <= 2) /\ a + (x - a + 1) - 1 = x
      BY <2>2
    <3>2. new[x - a + 1] = mem[a + (x - a + 1) - 1]
      BY <3>1 DEF new
    <3> QED BY <2>2, <3>1, <3>2
  <2>3. CASE x \notin a..(a + 3)
    BY <2>3
  <2> QED BY <2>1, <2>2, <2>3 DEF Address
<1> QED BY <1>5, <1>6 DEF first

-----------------------------------------------------------------------------
(***************************************************************************)
(* Strings, and the word in which one ends.                                *)
(***************************************************************************)
EndsAt(mem, a, e) ==
    e \in a..Size /\ mem[e] = 0 /\ \A x \in a..(e - 1) : mem[x] # 0

\* The kernel reads a string up to its end.
LEMMA StringIs ==
    ASSUME NEW mem, NEW a \in Nat, NEW e, EndsAt(mem, a, e)
    PROVE  StringAt(mem, a) = SubSeq(mem, a, e - 1)
<1> DEFINE Ends(n) == mem[n] = 0 /\ \A m \in a..(n - 1) : mem[m] # 0
           end == CHOOSE n \in a..Size : Ends(n)
<1>1. e \in a..Size /\ Ends(e)
  BY DEF EndsAt
<1>2. end \in a..Size /\ Ends(end)
  BY <1>1
<1>3. StringAt(mem, a) = SubSeq(mem, a, end - 1)
  BY Zenon DEF StringAt
<1> HIDE DEF end
<1>4. end = e
  BY <1>1, <1>2, FourBytes
<1> QED BY <1>3, <1>4

\* A word without a null byte belongs to the string as a whole.
LEMMA FullWord ==
    ASSUME NEW bytes \in Quad, \A i \in 1..4 : bytes[i] # 0
    PROVE  BeforeNull(bytes) = bytes
BY DEF Quad, BeforeNull

\* A word with a null byte ends the string there.
LEMMA EndOfWord ==
    ASSUME NEW bytes \in Quad, NEW n \in 1..4, bytes[n] = 0, \A i \in 1..(n - 1) : bytes[i] # 0
    PROVE  BeforeNull(bytes) = SubSeq(bytes, 1, n - 1)
<1> DEFINE null == {i \in DOMAIN bytes : bytes[i] = 0}
           least == CHOOSE x \in null : \A y \in null : x <= y
<1>1. DOMAIN bytes = 1..4
  BY DEF Quad
<1>2. n \in null /\ \A i \in null : n <= i
  BY <1>1
<1>3. null \subseteq Int
  BY <1>1
<1>4. BeforeNull(bytes) = SubSeq(bytes, 1, least - 1)
  BY <1>2, Zenon DEF BeforeNull, Min
<1> HIDE DEF null
<1>5. least \in null /\ \A y \in null : least <= y
  BY <1>2
<1> HIDE DEF least
<1>6. least = n
  BY <1>2, <1>3, <1>5
<1> QED BY <1>4, <1>6

-----------------------------------------------------------------------------
(***************************************************************************)
(* What is read word after word and string after string: the functions by  *)
(* which peek_string and peek_string_array are defined exist, so that they *)
(* satisfy their definitions.                                              *)
(***************************************************************************)
\* Induction over the natural numbers for a set.
LEMMA SetInduction ==
    ASSUME NEW S, 0 \in S, \A n \in Nat : n \in S => n + 1 \in S
    PROVE  Nat \subseteq S
<1> SUFFICES ASSUME Nat \ S # {} PROVE FALSE
  OBVIOUS
<1>1. PICK x \in Nat \ S : \A y \in Nat \ S : <<y, x>> \notin OpToRel(<, Nat)
  <2>1. Nat \ S \subseteq Nat
    OBVIOUS
  <2> QED BY <2>1, WFMin, NatLessThanWellFounded
<1>2. x \in Nat /\ x \notin S /\ x # 0 /\ x - 1 \in Nat /\ x - 1 < x /\ x - 1 + 1 = x
  <2>1. x \in Nat /\ x \notin S /\ x # 0
    OBVIOUS
  <2> QED BY <2>1
<1>3. <<x - 1, x>> \in OpToRel(<, Nat)
  BY <1>1, <1>2 DEF OpToRel
<1>4. x - 1 \in S
  BY <1>1, <1>2, <1>3
<1> QED BY <1>2, <1>4

\* A chain of pieces up to the first one where it stops.
Chain(n, stop, first, f) ==
    f = [i \in 0..n |-> IF i \in stop THEN first[i] ELSE first[i] \o f[i + 1]]

\* There is a chain of any length.
LEMMA ChainExists ==
    ASSUME NEW n \in Nat, NEW stop, NEW first, n \in stop
    PROVE  \E f : Chain(n, stop, first, f)
<1> DEFINE Step(i, rest) == IF i \in stop THEN first[i] ELSE first[i] \o rest
           Is(k, f) == \A i \in (n - k)..n : f[i] = Step(i, f[i + 1])
           K == {k \in Nat : k <= n => \E f : Is(k, f)}
<1>1. 0 \in K
  <2> DEFINE f == [i \in 0..n |-> first[n]]
  <2>1. Is(0, f)
    OBVIOUS
  <2> QED BY <2>1
<1>2. ASSUME NEW k \in Nat, k \in K PROVE k + 1 \in K
  <2> SUFFICES ASSUME k + 1 <= n PROVE \E f : Is(k + 1, f)
    OBVIOUS
  <2>1. PICK f : Is(k, f)
    BY <1>2
  <2> DEFINE m == n - (k + 1)
             v == Step(m, f[m + 1])
             g == [i \in 0..n |-> IF i = m THEN v ELSE f[i]]
  <2>2. m \in 0..n /\ \A i \in (n - k)..n : i \in 0..n /\ i # m
    OBVIOUS
  <2>3. ASSUME NEW i \in (n - k)..n PROVE g[i] = Step(i, g[i + 1])
    <3>1. g[i] = f[i] /\ f[i] = Step(i, f[i + 1])
      BY <2>1, <2>2
    <3>2. CASE i = n
      BY <3>1, <3>2
    <3>3. CASE i # n
      <4>1. i + 1 \in (n - k)..n
        BY <3>3
      <4>2. g[i + 1] = f[i + 1]
        BY <4>1, <2>2
      <4> QED BY <3>1, <4>2
    <3> QED BY <3>2, <3>3
  <2>4. g[m] = Step(m, g[m + 1])
    <3>1. m + 1 \in 0..n /\ m + 1 # m
      OBVIOUS
    <3>2. g[m + 1] = f[m + 1]
      BY <3>1
    <3> QED BY <2>2, <3>2
  <2>5. \A i \in m..n : i = m \/ i \in (n - k)..n
    OBVIOUS
  <2> HIDE DEF g
  <2>6. Is(k + 1, g)
    BY <2>3, <2>4, <2>5
  <2> QED BY <2>6
<1> HIDE DEF K
<1>3. n \in K
  BY <1>1, <1>2, SetInduction
<1>4. PICK f : \A i \in 0..n : f[i] = Step(i, f[i + 1])
  BY <1>3 DEF K
<1> DEFINE h == [i \in 0..n |-> f[i]]
<1>5. ASSUME NEW i \in 0..n PROVE h[i] = Step(i, h[i + 1])
  <2>1. CASE i = n
    BY <2>1, <1>4
  <2>2. CASE i # n
    <3>1. i + 1 \in 0..n
      BY <2>2
    <3> QED BY <3>1, <1>4
  <2> QED BY <2>1, <2>2
<1>6. h = [i \in 0..n |-> Step(i, h[i + 1])]
  BY <1>5
<1>7. Chain(n, stop, first, h)
  BY <1>6, Zenon DEF Chain
<1> QED BY <1>7

-----------------------------------------------------------------------------
(***************************************************************************)
(* peek_string.                                                            *)
(***************************************************************************)
Chars(mem, a) == BeforeNull(Bytes(Peekdata(mem, a), Word))

StringStops(mem, a) == Peekdata(mem, a) = Fault \/ Len(Chars(mem, a)) < Word

Piece(mem, a) == IF Peekdata(mem, a) = Fault THEN <<Fault>> ELSE Chars(mem, a)

\* The size of a word, as a number the provers multiply with.
LEMMA Times == \A i \in Int : i * Word = i * 4
BY FourBytes

\* After as many words as there are bytes the memory is over.
LEMMA BehindTheEnd == ASSUME NEW a \in Nat \ {0} PROVE ~Mapped(a + Size * Word)
<1>1. Size * Word = Size * 4
  BY Times, FourBytes
<1> QED BY <1>1, FourBytes DEF Mapped, Address

\* peek_string, piece by piece.
LEMMA StringChain ==
    ASSUME NEW mem, NEW a \in Nat \ {0}
    PROVE  \E f : /\ PeekString(mem, a) = f[0]
                 /\ \A i \in 0..Size : f[i] =
                        IF StringStops(mem, a + i * Word) THEN Piece(mem, a + i * Word)
                        ELSE Piece(mem, a + i * Word) \o f[i + 1]
<1> DEFINE Code(i, rest) ==
             LET word == Peekdata(mem, a + i * Word)
                 chars == BeforeNull(Bytes(word, Word)) IN
             IF word = Fault THEN <<Fault>> ELSE IF Len(chars) < Word THEN chars ELSE chars \o rest
           Step(i, rest) ==
             IF StringStops(mem, a + i * Word) THEN Piece(mem, a + i * Word)
             ELSE Piece(mem, a + i * Word) \o rest
           Is(f) == f = [i \in 0..Size |-> Code(i, f[i + 1])]
           g == CHOOSE f : Is(f)
           stop == {i \in 0..Size : StringStops(mem, a + i * Word)}
           piece == [i \in 0..Size |-> Piece(mem, a + i * Word)]
<1>1. ASSUME NEW i, NEW rest PROVE Code(i, rest) = Step(i, rest)
  BY Zenon DEF StringStops, Piece, Chars
<1>0. Size \in Nat /\ Size \in 0..Size
  BY FourBytes
<1>2. Size \in stop
  <2>1. Peekdata(mem, a + Size * Word) = Fault
    BY BehindTheEnd, NotMapped
  <2> QED BY <1>0, <2>1, Zenon DEF StringStops
<1>3. PICK f : Chain(Size, stop, piece, f)
  <2> HIDE DEF stop, piece
  <2> QED BY <1>0, <1>2, ChainExists
<1>4. \A i \in 0..Size :
        (IF i \in stop THEN piece[i] ELSE piece[i] \o f[i + 1]) = Step(i, f[i + 1])
  OBVIOUS
<1> HIDE DEF Step
<1>5. \A i \in 0..Size : Code(i, f[i + 1]) = Step(i, f[i + 1])
  BY <1>1
<1> HIDE DEF stop, piece, Code
<1>6. Is(f)
  BY <1>3, <1>4, <1>5 DEF Chain
<1>7. Is(g)
  BY <1>6
<1>8. PeekString(mem, a) = g[0]
  BY Zenon DEF PeekString, Code
<1> HIDE DEF g
<1>9. \A i \in 0..Size : g[i] = Step(i, g[i + 1])
  BY <1>7, <1>1
<1> QED BY <1>8, <1>9 DEF Step

\* A memory as the sequence of its bytes.
LEMMA MemoryIsSeq == ASSUME NEW mem \in Memory PROVE mem \in Seq(Byte) /\ Len(mem) = Size
BY FourBytes DEF Memory, Address

\* A part of a memory, as the bytes it has.
LEMMA PartIs ==
    ASSUME NEW mem \in Memory, NEW a \in Nat \ {0}, NEW e \in a..Size
    PROVE  /\ SubSeq(mem, a, e - 1) = [i \in 1..(e - a) |-> mem[a + i - 1]]
           /\ SubSeq(mem, a, e - 1) \in Seq(Byte)
           /\ Len(SubSeq(mem, a, e - 1)) = e - a
<1> DEFINE m == e - 1
           t == SubSeq(mem, a, m)
<1>1. a \in Int /\ m \in Int /\ \A i \in a..m : mem[i] \in Byte
  BY FourBytes DEF Memory, Address
<1>2. /\ t \in Seq(Byte)
      /\ Len(t) = IF a <= m THEN m - a + 1 ELSE 0
      /\ \A i \in 1..(m - a + 1) : t[i] = mem[a + i - 1]
  <2> HIDE DEF m
  <2> QED BY <1>1, SubSeqProperties
<1> HIDE DEF t
<1>3. Len(t) = e - a /\ m - a + 1 = e - a
  BY <1>2, FourBytes
<1>4. t = [i \in 1..(e - a) |-> mem[a + i - 1]]
  BY <1>2, <1>3
<1> QED BY <1>2, <1>3, <1>4 DEF t

\* Reading stops with an error where no word is mapped,
LEMMA PieceUnmapped ==
    ASSUME NEW mem, NEW a, ~Mapped(a) PROVE StringStops(mem, a) /\ Piece(mem, a) = <<Fault>>
BY NotMapped DEF StringStops, Piece

\* goes on with the bytes of a mapped word,
LEMMA PieceMapped ==
    ASSUME NEW mem \in Memory, NEW a \in Nat \ {0}, Mapped(a)
    PROVE  /\ Piece(mem, a) = Chars(mem, a)
           /\ StringStops(mem, a) <=> Len(Chars(mem, a)) < 4
           /\ Chars(mem, a) = BeforeNull([i \in 1..4 |-> mem[a + i - 1]])
<1>1. /\ Bytes(Peekdata(mem, a), Word) = [i \in 1..4 |-> mem[a + i - 1]]
      /\ Peekdata(mem, a) # Fault
  <2>1. a \in Int
    OBVIOUS
  <2> QED BY <2>1, PeekIs, Zenon
<1> QED BY <1>1, FourBytes, Zenon DEF Piece, StringStops, Chars

\* stops in the word in which the string ends,
LEMMA LastPiece ==
    ASSUME NEW mem \in Memory, NEW a \in Nat \ {0}, NEW e, EndsAt(mem, a, e),
           Mapped(a), e <= a + 3
    PROVE  StringStops(mem, a) /\ Piece(mem, a) = SubSeq(mem, a, e - 1)
<1> DEFINE b == [i \in 1..4 |-> mem[a + i - 1]]
           n == e - a + 1
           s == SubSeq(b, 1, n - 1)
           t == SubSeq(mem, a, e - 1)
<1>1. e \in a..Size /\ e \in Int /\ mem[e] = 0 /\ \A x \in a..(e - 1) : mem[x] # 0
  BY DEF EndsAt
<1>2. n \in 1..4 /\ a + n - 1 = e /\ n - 1 = e - a
  BY <1>1
<1>3. b \in Quad
  <2>1. a \in Int
    OBVIOUS
  <2> QED BY <2>1, PeekIs, Zenon
<1>4. b[n] = 0 /\ \A i \in 1..(n - 1) : b[i] # 0
  <2>1. b[n] = mem[a + n - 1]
    BY <1>2
  <2>2. ASSUME NEW i \in 1..(n - 1) PROVE b[i] # 0
    <3>1. i \in 1..4 /\ a + i - 1 \in a..(e - 1)
      BY <1>1, <1>2
    <3> QED BY <1>1, <3>1
  <2> QED BY <1>1, <1>2, <2>1, <2>2
<1>5. /\ t = [i \in 1..(e - a) |-> mem[a + i - 1]]
      /\ Len(t) = e - a
  BY <1>1, PartIs
<1>6. /\ s \in Seq(Byte) /\ Len(s) = n - 1
      /\ \A i \in 1..(n - 1) : s[i] = b[i]
  <2> DEFINE m == n - 1
  <2>1. 1 \in Int /\ m \in Int /\ \A i \in 1..m : b[i] \in Byte
    BY <1>2, <1>3 DEF Quad
  <2>2. /\ SubSeq(b, 1, m) \in Seq(Byte)
        /\ Len(SubSeq(b, 1, m)) = IF 1 <= m THEN m - 1 + 1 ELSE 0
        /\ \A i \in 1..(m - 1 + 1) : SubSeq(b, 1, m)[i] = b[1 + i - 1]
    <3> HIDE DEF m, b
    <3> QED BY <2>1, SubSeqProperties
  <2> HIDE DEF b
  <2> QED BY <1>2, <2>2
<1>7. BeforeNull(b) = s
  BY <1>2, <1>3, <1>4, EndOfWord
<1>8. /\ Piece(mem, a) = Chars(mem, a)
      /\ StringStops(mem, a) <=> Len(Chars(mem, a)) < 4
      /\ Chars(mem, a) = BeforeNull(b)
  BY PieceMapped
<1>9. s = t
  <2>1. \A i \in 1..(n - 1) : b[i] = mem[a + i - 1]
    BY <1>2
  <2> HIDE DEF s, t, b, n
  <2> QED BY <1>2, <1>5, <1>6, <2>1
<1> HIDE DEF s, t, b
<1>10. Len(s) < 4
  BY <1>2, <1>6
<1> QED BY <1>7, <1>8, <1>9, <1>10 DEF t

\* and reads all of a word before that.
LEMMA InnerPiece ==
    ASSUME NEW mem \in Memory, NEW a \in Nat \ {0}, NEW e, EndsAt(mem, a, e), e > a + 3
    PROVE  ~StringStops(mem, a) /\ Piece(mem, a) = SubSeq(mem, a, a + 3) /\ Mapped(a)
<1> DEFINE b == [i \in 1..4 |-> mem[a + i - 1]]
           z == a + 4
           t == SubSeq(mem, a, z - 1)
<1>1. e \in a..Size /\ e \in Int /\ \A x \in a..(e - 1) : mem[x] # 0
  BY DEF EndsAt
<1>2. Mapped(a) /\ z \in a..Size /\ z - a = 4 /\ z - 1 = a + 3
  BY <1>1, FourBytes DEF Mapped, Address
<1>3. b \in Quad
  <2>1. a \in Int
    OBVIOUS
  <2> QED BY <1>2, <2>1, PeekIs, Zenon
<1>4. \A i \in 1..4 : b[i] # 0
  BY <1>1
<1>5. BeforeNull(b) = b
  BY <1>3, <1>4, FullWord
<1>6. t = [i \in 1..(z - a) |-> mem[a + i - 1]] /\ Len(t) = z - a
  <2> HIDE DEF z
  <2> QED BY <1>2, PartIs
<1>7. t = b
  BY <1>2, <1>6
<1>8. /\ Piece(mem, a) = Chars(mem, a)
      /\ StringStops(mem, a) <=> Len(Chars(mem, a)) < 4
      /\ Chars(mem, a) = BeforeNull(b)
  BY <1>2, PieceMapped
<1> HIDE DEF b
<1>9. ~(Len(t) < 4)
  BY <1>2, <1>6
<1>10. t = SubSeq(mem, a, a + 3)
  BY <1>2
<1> HIDE DEF t
<1> QED BY <1>2, <1>5, <1>7, <1>8, <1>9, <1>10

\* What was read without error holds no error.
LEMMA BytesDontFail == ASSUME NEW s \in Seq(Byte) PROVE ~Failed(s)
<1>1. \A i \in DOMAIN s : s[i] \in Byte
  BY ElementOfSeq
<1> QED BY <1>1, FourBytes DEF Failed, Range, Byte, Fault

\* Bytes and errors are integers, which concatenation asks for.
LEMMA BytesAreInts == ASSUME NEW s \in Seq(Byte) PROVE s \in Seq(Int)
<1>1. Byte \subseteq Int
  BY DEF Byte
<1> QED BY <1>1, SeqMonotonic

\* The error of a read counts as a failure,
LEMMA FaultFails == Failed(<<Fault>>) /\ <<Fault>> \in Seq(Int)
BY DEF Failed, Range, Fault

\* and stays one when it is the end of a longer string.
LEMMA FailsFurther ==
    ASSUME NEW s \in Seq(Int), NEW t \in Seq(Int), Failed(t)
    PROVE  s \o t \in Seq(Int) /\ Failed(s \o t)
<1>1. /\ s \o t \in Seq(Int) /\ Len(s \o t) = Len(s) + Len(t)
      /\ \A i \in 1..Len(s) + Len(t) : (s \o t)[i] = IF i <= Len(s) THEN s[i] ELSE t[i - Len(s)]
  BY ConcatProperties
<1>2. PICK i \in 1..Len(t) : t[i] = Fault
  BY LenProperties DEF Failed, Range
<1> DEFINE j == Len(s) + i
<1>3. j \in 1..Len(s) + Len(t) /\ ~(j <= Len(s)) /\ j - Len(s) = i
  BY LenProperties
<1>4. (s \o t)[j] = Fault
  BY <1>1, <1>2, <1>3
<1>5. j \in DOMAIN (s \o t)
  BY <1>1, <1>3, LenProperties
<1> QED BY <1>1, <1>4, <1>5 DEF Failed, Range

\* peek_string returns what stands before the first null byte, wherever the words
\* end; it fails only if that is less than a word before the end of the memory.
THEOREM PeekStringIs ==
    ASSUME NEW mem \in Memory, NEW a \in Nat \ {0}, NEW e, EndsAt(mem, a, e)
    PROVE  /\ Failed(PeekString(mem, a)) => e > Size - Word + 1
           /\ ~Failed(PeekString(mem, a)) => PeekString(mem, a) = StringAt(mem, a)
<1>1. PICK f : /\ PeekString(mem, a) = f[0]
               /\ \A i \in 0..Size : f[i] =
                    IF StringStops(mem, a + i * Word) THEN Piece(mem, a + i * Word)
                    ELSE Piece(mem, a + i * Word) \o f[i + 1]
  BY StringChain
<1>2. e \in a..Size /\ e \in Int /\ mem[e] = 0 /\ \A x \in a..(e - 1) : mem[x] # 0
  BY DEF EndsAt
<1> DEFINE At(i) == a + i * 4
           Read(i) == f[i] = SubSeq(mem, At(i), e - 1)
           Fails4(i) == Failed(f[i]) /\ f[i] \in Seq(Int) /\ e > Size - 3
           K == {k \in Nat : \A i \in 0..Size :
                    At(i) <= e /\ e <= At(i) + 4 * k + 3 => Read(i) \/ Fails4(i)}
<1>3. ASSUME NEW i \in 0..Size, At(i) <= e
      PROVE  /\ At(i) \in Nat \ {0} /\ EndsAt(mem, At(i), e)
             /\ f[i] = IF StringStops(mem, At(i)) THEN Piece(mem, At(i))
                       ELSE Piece(mem, At(i)) \o f[i + 1]
  <2>1. At(i) \in Nat \ {0} /\ EndsAt(mem, At(i), e)
    BY <1>2, <1>3, FourBytes DEF EndsAt
  <2>2. a + i * Word = At(i)
    BY Times
  <2> QED BY <1>1, <2>1, <2>2
<1>4. ASSUME NEW i \in 0..Size, At(i) <= e, e <= At(i) + 3
      PROVE  Read(i) \/ Fails4(i)
  <2> DEFINE b == At(i)
  <2>1. b \in Nat \ {0} /\ EndsAt(mem, b, e)
    BY <1>3, <1>4
  <2>2. CASE Mapped(b)
    <3>1. StringStops(mem, b) /\ Piece(mem, b) = SubSeq(mem, b, e - 1)
      <4> HIDE DEF b
      <4> QED BY <2>1, <2>2, <1>4, LastPiece DEF b
    <3> QED BY <3>1, <1>3, <1>4
  <2>3. CASE ~Mapped(b)
    <3>1. StringStops(mem, b) /\ Piece(mem, b) = <<Fault>>
      BY <2>3, PieceUnmapped
    <3>2. f[i] = <<Fault>>
      BY <3>1, <1>3, <1>4
    <3>3. e > Size - 3
      BY <1>2, <1>4, <2>1, <2>3, FourBytes DEF Mapped, Address
    <3> QED BY <3>2, <3>3, FaultFails
  <2> QED BY <2>2, <2>3
<1>5. PICK zero \in Nat : zero = 0
  OBVIOUS
<1>6. zero \in K
  BY <1>4, <1>5
<1>7. ASSUME NEW k \in Nat, k \in K PROVE k + 1 \in K
  <2> SUFFICES ASSUME NEW i \in 0..Size, At(i) <= e, e <= At(i) + 4 * (k + 1) + 3
               PROVE  Read(i) \/ Fails4(i)
    OBVIOUS
  <2>1. CASE e <= At(i) + 3
    BY <1>4, <2>1
  <2>2. CASE e > At(i) + 3
    <3> DEFINE b == At(i)
               s == SubSeq(mem, b, b + 3)
               t == SubSeq(mem, b + 4, e - 1)
    <3>1. b \in Nat \ {0} /\ EndsAt(mem, b, e) /\ b = At(i)
      BY <1>3, <2>2
    <3>2. f[i] = s \o f[i + 1]
      <4>1. ~StringStops(mem, b) /\ Piece(mem, b) = s
        <5> HIDE DEF b
        <5> QED BY <3>1, <2>2, <1>2, InnerPiece
      <4> QED BY <4>1, <1>3, <2>2
    <3>3. i + 1 \in 0..Size /\ At(i + 1) = b + 4 /\ b + 4 <= e /\ e <= b + 4 + 4 * k + 3
      BY <2>2, <1>2, FourBytes
    <3>4. Read(i + 1) \/ Fails4(i + 1)
      BY <1>7, <3>3
    <3>5. s \in Seq(Byte) /\ s \in Seq(Int)
      <4> DEFINE z == b + 4
      <4>1. z \in b..Size /\ z - 1 = b + 3
        <5>1. b \in Nat /\ b + 4 <= e /\ e \in a..Size
          BY <1>2, <3>1, <3>3
        <5> HIDE DEF b
        <5> QED BY <5>1, FourBytes
      <4>2. SubSeq(mem, b, z - 1) \in Seq(Byte)
        <5> HIDE DEF b, z
        <5> QED BY <3>1, <4>1, PartIs
      <4>3. s \in Seq(Byte)
        BY <4>1, <4>2
      <4> HIDE DEF s
      <4> QED BY <4>3, BytesAreInts
    <3>6. CASE Read(i + 1)
      <4> DEFINE m == b + 3
                 n == e - 1
      <4>1. /\ mem \in Seq(Byte) /\ b \in 1..(Len(mem) + 1) /\ m \in (b - 1)..Len(mem)
            /\ n \in m..Len(mem) /\ m + 1 = b + 4
        BY <1>2, <3>1, <3>3, MemoryIsSeq
      <4>2. SubSeq(mem, b, m) \o SubSeq(mem, m + 1, n) = SubSeq(mem, b, n)
        <5> HIDE DEF b, m, n
        <5> QED BY <4>1, ConcatAdjacentSubSeq
      <4>3. f[i + 1] = t
        BY <3>3, <3>6
      <4> QED BY <3>2, <4>1, <4>2, <4>3
    <3>7. CASE Fails4(i + 1)
      <4> HIDE DEF s
      <4> QED BY <3>2, <3>5, <3>7, FailsFurther
    <3> QED BY <3>4, <3>6, <3>7
  <2> QED BY <2>1, <2>2, <1>2
<1> HIDE DEF K
<1>8. e \in K
  BY <1>2, <1>5, <1>6, <1>7, SetInduction
<1>9. Read(0) \/ Fails4(0)
  <2>1. 0 \in 0..Size /\ At(0) = a /\ At(0) <= e /\ e <= At(0) + 4 * e + 3
    BY <1>2, FourBytes
  <2> QED BY <1>8, <2>1 DEF K
<1>10. StringAt(mem, a) = SubSeq(mem, a, e - 1)
  BY StringIs
<1>11. At(0) = a
  OBVIOUS
<1>12. ~Failed(SubSeq(mem, a, e - 1))
  BY <1>2, PartIs, BytesDontFail
<1>13. CASE Read(0)
  <2>1. PeekString(mem, a) = SubSeq(mem, a, e - 1)
    BY <1>1, <1>11, <1>13
  <2> QED BY <2>1, <1>10, <1>12
<1>14. CASE Fails4(0)
  <2>1. Failed(PeekString(mem, a)) /\ e > Size - 3
    BY <1>1, <1>14
  <2> QED BY <2>1, <1>2, FourBytes
<1> QED BY <1>9, <1>13, <1>14

-----------------------------------------------------------------------------
(***************************************************************************)
(* peek_string_array.                                                      *)
(***************************************************************************)
ArrayStops(mem, a) == Peekdata(mem, a) \in {Fault, 0}

Element(mem, a) ==
    IF Peekdata(mem, a) = Fault THEN << <<Fault>> >>
    ELSE IF Peekdata(mem, a) = 0 THEN <<>> ELSE <<PeekString(mem, Peekdata(mem, a))>>

\* peek_string_array, element by element.
LEMMA ArrayChain ==
    ASSUME NEW mem, NEW a \in Nat \ {0}
    PROVE  \E f : /\ PeekStringArray(mem, a) = f[1]
                 /\ \A i \in 0..Size : f[i] =
                        IF ArrayStops(mem, a + i * Word) THEN Element(mem, a + i * Word)
                        ELSE Element(mem, a + i * Word) \o f[i + 1]
<1> DEFINE Code(i, rest) ==
             LET word == Peekdata(mem, a + i * Word) IN
             IF word = Fault THEN << <<Fault>> >>
             ELSE IF word = 0 THEN <<>> ELSE <<PeekString(mem, word)>> \o rest
           Step(i, rest) ==
             IF ArrayStops(mem, a + i * Word) THEN Element(mem, a + i * Word)
             ELSE Element(mem, a + i * Word) \o rest
           Is(f) == f = [i \in 0..Size |-> Code(i, f[i + 1])]
           g == CHOOSE f : Is(f)
           stop == {i \in 0..Size : ArrayStops(mem, a + i * Word)}
           element == [i \in 0..Size |-> Element(mem, a + i * Word)]
<1>0. Size \in Nat /\ Size \in 0..Size
  BY FourBytes
<1>1. ASSUME NEW i, NEW rest PROVE Code(i, rest) = Step(i, rest)
  BY Zenon DEF ArrayStops, Element
<1>2. Size \in stop
  <2>1. Peekdata(mem, a + Size * Word) = Fault
    BY BehindTheEnd, NotMapped
  <2> QED BY <1>0, <2>1, Zenon DEF ArrayStops
<1>3. PICK f : Chain(Size, stop, element, f)
  <2> HIDE DEF stop, element
  <2> QED BY <1>0, <1>2, ChainExists
<1>4. \A i \in 0..Size :
        (IF i \in stop THEN element[i] ELSE element[i] \o f[i + 1]) = Step(i, f[i + 1])
  OBVIOUS
<1> HIDE DEF Step
<1>5. \A i \in 0..Size : Code(i, f[i + 1]) = Step(i, f[i + 1])
  BY <1>1
<1> HIDE DEF stop, element, Code
<1>6. Is(f)
  BY <1>3, <1>4, <1>5 DEF Chain
<1>7. Is(g)
  BY <1>6
<1>8. PeekStringArray(mem, a) = g[1]
  BY Zenon DEF PeekStringArray, Code
<1> HIDE DEF g
<1>9. \A i \in 0..Size : g[i] = Step(i, g[i + 1])
  BY <1>7, <1>1
<1> QED BY <1>8, <1>9 DEF Step

\* The strings from the n-th one on, with one more before them.
LastOf(g, n, k) == [i \in 1..k |-> g[n - k + i - 1]]

\* A string before the strings from the n-th one on.
LEMMA OneMore ==
    ASSUME NEW g, NEW n \in Nat, NEW k \in Nat, k < n
    PROVE  <<g[n - k - 1]>> \o LastOf(g, n, k) = LastOf(g, n, k + 1)
<1> DEFINE S == {g[j] : j \in Int}
           x == g[n - k - 1]
           s == <<x>>
           t == [i \in 1..k |-> g[n - k + i - 1]]
           u == [i \in 1..(k + 1) |-> g[n - (k + 1) + i - 1]]
<1>1. s \in Seq(S) /\ Len(s) = 1 /\ s[1] = x
  <2>1. x \in S
    OBVIOUS
  <2> HIDE DEF S, x
  <2> QED BY <2>1
<1>2. t \in Seq(S) /\ Len(t) = k
  <2>1. t \in [1..k -> S]
    OBVIOUS
  <2> HIDE DEF S, t
  <2> QED BY <2>1
<1>3. /\ s \o t \in Seq(S) /\ Len(s \o t) = Len(s) + Len(t)
      /\ \A i \in 1..Len(s) + Len(t) : (s \o t)[i] = IF i <= Len(s) THEN s[i] ELSE t[i - Len(s)]
  <2> HIDE DEF s, t, S
  <2> QED BY <1>1, <1>2, ConcatProperties
<1>4. ASSUME NEW i \in 1..(k + 1) PROVE (s \o t)[i] = u[i]
  <2>1. (s \o t)[i] = IF i <= 1 THEN s[i] ELSE t[i - 1]
    <3>1. Len(s) = 1 /\ Len(t) = k /\ i \in 1..Len(s) + Len(t)
      BY <1>1, <1>2
    <3> HIDE DEF s, t
    <3> QED BY <1>3, <3>1
  <2>2. CASE i = 1
    <3>1. n - (k + 1) + i - 1 = n - k - 1
      BY <2>2
    <3> HIDE DEF s, t
    <3>2. (s \o t)[i] = x
      BY <1>1, <2>1, <2>2
    <3> QED BY <3>1, <3>2
  <2>3. CASE i # 1
    <3>1. i - 1 \in 1..k /\ n - k + (i - 1) - 1 = n - (k + 1) + i - 1 /\ ~(i <= 1)
      BY <2>3
    <3>2. t[i - 1] = g[n - k + (i - 1) - 1]
      BY <3>1
    <3> HIDE DEF s, t
    <3> QED BY <2>1, <3>1, <3>2
  <2> QED BY <2>2, <2>3
<1>5. s \o t = [i \in 1..(k + 1) |-> (s \o t)[i]]
  <2> DEFINE c == s \o t
  <2>1. c \in Seq(S) /\ Len(c) = k + 1
    BY <1>1, <1>2, <1>3
  <2> HIDE DEF c
  <2>2. c = [i \in 1..(k + 1) |-> c[i]]
    BY <2>1
  <2> QED BY <2>2 DEF c
<1>6. s \o t = u
  BY <1>4, <1>5
<1> QED BY <1>6, Zenon DEF LastOf

\* peek_string_array returns the strings that the pointers name up to the null pointer,
\* without the first one.
THEOREM PeekStringArrayIs ==
    ASSUME NEW mem, NEW a \in Nat \ {0}, NEW n \in 1..Size,
           \A i \in 1..(n - 1) : ~ArrayStops(mem, a + i * Word),
           Peekdata(mem, a + n * Word) = 0
    PROVE  PeekStringArray(mem, a) =
                [i \in 1..(n - 1) |-> PeekString(mem, Peekdata(mem, a + i * Word))]
<1>0. n \in Nat /\ n >= 1 /\ n <= Size /\ Size \in Nat /\ 0 # Fault
  BY FourBytes DEF Fault
<1>1. PICK f : /\ PeekStringArray(mem, a) = f[1]
               /\ \A i \in 0..Size : f[i] =
                    IF ArrayStops(mem, a + i * Word) THEN Element(mem, a + i * Word)
                    ELSE Element(mem, a + i * Word) \o f[i + 1]
  BY ArrayChain
<1> DEFINE g == [i \in Int |-> PeekString(mem, Peekdata(mem, a + i * Word))]
           K == {k \in Nat : k < n => f[n - k] = LastOf(g, n, k)}
<1>2. f[n] = <<>>
  <2>1. ArrayStops(mem, a + n * Word) /\ Element(mem, a + n * Word) = <<>>
    BY <1>0, Zenon DEF ArrayStops, Element
  <2>2. n \in 0..Size
    BY <1>0
  <2> QED BY <1>1, <2>1, <2>2, Zenon
<1>3. PICK zero \in Nat : zero = 0
  OBVIOUS
<1>4. zero \in K
  <2>1. n - zero = n /\ 1..zero = {}
    BY <1>0, <1>3
  <2>2. LastOf(g, n, zero) = <<>>
    BY <2>1 DEF LastOf
  <2> QED BY <1>2, <2>1, <2>2
<1>5. ASSUME NEW k \in Nat, k \in K PROVE k + 1 \in K
  <2> SUFFICES ASSUME k + 1 < n
               PROVE  f[n - (k + 1)] = LastOf(g, n, k + 1)
    OBVIOUS
  <2> DEFINE m == n - k - 1
  <2>1. m \in 1..(n - 1) /\ m \in 0..Size /\ m \in Int /\ n - (k + 1) = m /\ m + 1 = n - k
    BY <1>0
  <2>2. f[n - k] = LastOf(g, n, k)
    BY <1>5
  <2> HIDE DEF m
  <2>3. f[m] = Element(mem, a + m * Word) \o f[m + 1]
    BY <1>1, <2>1
  <2>4. Element(mem, a + m * Word) = <<PeekString(mem, Peekdata(mem, a + m * Word))>>
    BY <2>1, Zenon DEF Element, ArrayStops
  <2>5. g[m] = PeekString(mem, Peekdata(mem, a + m * Word))
    BY <2>1
  <2> HIDE DEF g
  <2>6. <<g[n - k - 1]>> \o LastOf(g, n, k)
                = LastOf(g, n, k + 1)
    <3>1. k < n
      BY <1>0
    <3> QED BY <1>0, <3>1, OneMore
  <2>7. n - k - 1 = m
    BY DEF m
  <2> QED BY <2>1, <2>2, <2>3, <2>4, <2>5, <2>6, <2>7
<1> HIDE DEF K
<1>6. \A k \in Nat : k \in K
  BY <1>3, <1>4, <1>5, SetInduction
<1> DEFINE l == n - 1
<1>7. l \in Nat /\ l < n /\ n - l = 1
  BY <1>0
<1> HIDE DEF l
<1>8. f[1] = LastOf(g, n, l)
  <2> HIDE DEF g
  <2>1. f[n - l] = LastOf(g, n, l)
    BY <1>6, <1>7 DEF K
  <2> QED BY <1>7, <2>1
<1>9. ASSUME NEW i \in 1..l PROVE g[n - l + i - 1] = PeekString(mem, Peekdata(mem, a + i * Word))
  <2>1. n - l + i - 1 = i /\ i \in Int
    BY <1>7
  <2> QED BY <2>1
<1> HIDE DEF g
<1>10. LastOf(g, n, l) = [i \in 1..l |-> PeekString(mem, Peekdata(mem, a + i * Word))]
  BY <1>9 DEF LastOf
<1> QED BY <1>1, <1>8, <1>10 DEF l

-----------------------------------------------------------------------------
(***************************************************************************)
(* A command that is read from a memory in which its strings are as in the *)
(* image.                                                                  *)
(***************************************************************************)
\* A memory that has kept what no query writes.
Kept(mem) == mem \in Memory /\ \A x \in Address \ Queried : mem[x] = Image[x]

\* A string of the image is read as it is there, or ends near the end of the memory.
LEMMA StringSeen ==
    ASSUME NEW mem, Kept(mem), NEW a \in Address, IsString(a)
    PROVE  /\ Failed(PeekString(mem, a)) => a + Len(StringAt(Image, a)) > Size - Word + 1
           /\ ~Failed(PeekString(mem, a)) => PeekString(mem, a) = StringAt(Image, a)
<1>1. PICK e \in a..Size :
        /\ Image[e] = 0 /\ \A x \in a..(e - 1) : Image[x] # 0
        /\ (a..e) \cap Queried = {}
  BY DEF IsString
<1>2. mem \in Memory /\ Image \in Memory /\ a \in Nat \ {0} /\ e \in Nat
  BY FourBytes, MockExecutablesAssumption DEF Kept, Address
<1>3. \A x \in a..e : mem[x] = Image[x]
  BY <1>1, FourBytes DEF Kept, Address
<1>4. EndsAt(Image, a, e) /\ EndsAt(mem, a, e)
  BY <1>1, <1>3, <1>2 DEF EndsAt
<1>5. /\ StringAt(mem, a) = SubSeq(mem, a, e - 1)
      /\ StringAt(Image, a) = SubSeq(Image, a, e - 1)
  BY <1>2, <1>4, StringIs
<1>6. /\ SubSeq(mem, a, e - 1) = [i \in 1..(e - a) |-> mem[a + i - 1]]
      /\ SubSeq(Image, a, e - 1) = [i \in 1..(e - a) |-> Image[a + i - 1]]
      /\ Len(SubSeq(Image, a, e - 1)) = e - a
  BY <1>1, <1>2, PartIs
<1>7. ASSUME NEW i \in 1..(e - a) PROVE mem[a + i - 1] = Image[a + i - 1]
  <2>1. a + i - 1 \in a..e
    BY <1>2
  <2> QED BY <2>1, <1>3
<1>8. StringAt(mem, a) = StringAt(Image, a)
  BY <1>5, <1>6, <1>7
<1>9. a + Len(StringAt(Image, a)) = e
  BY <1>2, <1>5, <1>6
<1>10. /\ Failed(PeekString(mem, a)) => e > Size - Word + 1
       /\ ~Failed(PeekString(mem, a)) => PeekString(mem, a) = StringAt(mem, a)
  BY <1>2, <1>4, PeekStringIs
<1> QED BY <1>8, <1>9, <1>10

\* The null pointer at the end of an array.
LEMMA ArgcIs ==
    ASSUME NEW a, NEW n \in 1..Size, Pointer(a, n) = 0, \A i \in 0..(n - 1) : Pointer(a, i) # 0
    PROVE  Argc(a) = n
<1> DEFINE Null(k) == Pointer(a, k) = 0 /\ \A m \in 0..(k - 1) : Pointer(a, m) # 0
           argc == CHOOSE k \in 1..Size : Null(k)
<1>1. argc \in 1..Size /\ Null(argc)
  BY Zenon
<1>2. Argc(a) = argc
  BY Zenon DEF Argc
<1> HIDE DEF argc
<1>3. argc = n
  BY <1>1, FourBytes
<1> QED BY <1>2, <1>3

\* The array of a command is read as the strings its pointers name.
LEMMA ArraySeen ==
    ASSUME NEW mem, Kept(mem), NEW a \in Address, NEW n \in 1..Size,
           Pointer(a, n) = 0,
           (a..(a + n * Word + Word - 1)) \subseteq Address \ Queried,
           \A i \in 1..(n - 1) : Pointer(a, i) \in Address
    PROVE  PeekStringArray(mem, a) = [i \in 1..(n - 1) |-> PeekString(mem, Pointer(a, i))]
<1>1. a \in Nat \ {0} /\ n \in Nat /\ Word = 4 /\ n * Word = n * 4
  BY FourBytes, Times DEF Address
<1>2. ASSUME NEW i \in 1..n PROVE Peekdata(mem, a + i * Word) = Pointer(a, i)
  <2> DEFINE b == a + i * Word
  <2>1. b = a + i * 4 /\ i \in Nat
    BY Times
  <2>2. ASSUME NEW j \in 1..4 PROVE mem[b + j - 1] = Image[b + j - 1]
    <3>1. b + j - 1 \in a..(a + n * Word + Word - 1)
      <4> HIDE DEF b
      <4> QED BY <1>1, <2>1
    <3> QED BY <3>1 DEF Kept
  <2> HIDE DEF b
  <2>3. Peekdata(mem, b) = Peekdata(Image, b)
    BY <2>2, PeekSame
  <2> QED BY <2>3 DEF b, Pointer
<1>3. \A i \in 1..(n - 1) : i \in 1..n
  BY <1>1
<1>4. ASSUME NEW i \in 1..(n - 1) PROVE ~ArrayStops(mem, a + i * Word)
  <2>1. Pointer(a, i) \notin {Fault, 0}
    BY DEF Address, Fault
  <2> QED BY <1>2, <1>3, <2>1 DEF ArrayStops
<1>5. Peekdata(mem, a + n * Word) = 0
  BY <1>1, <1>2
<1>6. PeekStringArray(mem, a) = [i \in 1..(n - 1) |-> PeekString(mem, Peekdata(mem, a + i * Word))]
  BY <1>1, <1>4, <1>5, PeekStringArrayIs
<1> QED BY <1>2, <1>3, <1>6

\* What the mock is told of a command that is read from such a memory.
LEMMA CommandIsRead ==
    ASSUME NEW mem, Kept(mem), NEW r, NEW c \in Call, r = [rdi |-> c.path, rsi |-> c.argv],
           NEW command, command = <<PeekString(mem, r.rdi), PeekStringArray(mem, r.rsi)>>
    PROVE  IF CommandFails(command) THEN NearTheEnd(r) ELSE command = Meant(r)
<1>0. /\ c.path \in Address /\ c.argv \in Address /\ IsString(c.path) /\ IsArgv(c.argv)
      /\ r.rdi = c.path /\ r.rsi = c.argv
  BY MockExecutablesAssumption, CallAssumption
<1> DEFINE a == r.rsi
           path == PeekString(mem, r.rdi)
           array == PeekStringArray(mem, a)
<1>1. PICK n \in 1..Size :
        /\ Pointer(a, n) = 0 /\ \A i \in 0..(n - 1) : Pointer(a, i) # 0
        /\ (a..(a + n * Word + Word - 1)) \subseteq Address \ Queried
        /\ \A i \in 1..(n - 1) : Pointer(a, i) \in Address /\ IsString(Pointer(a, i))
  BY <1>0 DEF IsArgv
<1>2. array = [i \in 1..(n - 1) |-> PeekString(mem, Pointer(a, i))]
  BY <1>0, <1>1, ArraySeen
<1>3. Argc(a) = n
  BY <1>1, ArgcIs
<1>4. /\ Failed(path) => r.rdi + Len(StringAt(Image, r.rdi)) > Size - Word + 1
      /\ ~Failed(path) => path = StringAt(Image, r.rdi)
  BY <1>0, StringSeen
<1>5. ASSUME NEW i \in 1..(n - 1)
      PROVE  /\ Failed(array[i]) =>
                  Pointer(a, i) + Len(StringAt(Image, Pointer(a, i))) > Size - Word + 1
             /\ ~Failed(array[i]) => array[i] = StringAt(Image, Pointer(a, i))
  BY <1>1, <1>2, StringSeen
<1>6. Meant(r) = << StringAt(Image, r.rdi), [i \in 1..(n - 1) |-> StringAt(Image, Pointer(a, i))] >>
  BY <1>3 DEF Meant
<1>7. NearTheEnd(r) <=> \E b \in {r.rdi} \cup {Pointer(a, i) : i \in 1..(n - 1)} :
                            b + Len(StringAt(Image, b)) > Size - Word + 1
  BY <1>3 DEF NearTheEnd
<1>8. CommandFails(command) <=> Failed(path) \/ \E i \in 1..(n - 1) : Failed(array[i])
  BY <1>2 DEF CommandFails
<1> HIDE DEF path, array, a
<1>9. CASE CommandFails(command)
  BY <1>4, <1>5, <1>7, <1>8, <1>9
<1>10. CASE ~CommandFails(command)
  <2>1. path = StringAt(Image, r.rdi)
    BY <1>4, <1>8, <1>10
  <2>2. array = [i \in 1..(n - 1) |-> StringAt(Image, Pointer(a, i))]
    <3>1. \A i \in 1..(n - 1) : array[i] = StringAt(Image, Pointer(a, i))
      BY <1>5, <1>8, <1>10
    <3> QED BY <1>2, <3>1
  <2>3. command = <<path, array>>
    BY DEF path, array, a
  <2> QED BY <1>6, <1>10, <2>1, <2>2, <2>3
<1> QED BY <1>9, <1>10

-----------------------------------------------------------------------------
(***************************************************************************)
(* poke_string.                                                            *)
(***************************************************************************)
\* The memory after the first k words of a string have been written.
Written(mem, a, string, k) ==
    [x \in Address |-> IF x \in a..(a + 4 * k - 1)
                        THEN IF x - a < Len(string) THEN string[x - a + 1] ELSE 0
                        ELSE mem[x]]

Quads(string, n) ==
    [i \in 1..4 |-> IF (n - 1) * 4 + i <= Len(string) THEN string[(n - 1) * 4 + i] ELSE 0]

\* The number of words of a string and its null byte.
LEMMA WordsAre ==
    ASSUME NEW l \in Nat
    PROVE  /\ (l \div Word) + 1 \in Nat /\ 4 * ((l \div Word) + 1) > l
           /\ 4 * ((l \div Word) + 1) <= l + 4
           /\ \A size \in Nat : l < size =>
                /\ 4 * ((l \div Word) + 1) <= RoundedUp(size)
                /\ size % Word = 0 => 4 * ((l \div Word) + 1) <= size
<1>1. \A size \in Nat : RoundedUp(size) = 4 * ((size + 3) \div 4)
  BY FourBytes DEF RoundedUp
<1>2. l \div Word = l \div 4 /\ \A size \in Nat : size % Word = size % 4
  BY FourBytes
<1> QED BY <1>1, <1>2

\* The words of a string consist of bytes.
LEMMA QuadsType ==
    ASSUME NEW string \in Seq(Byte), NEW n \in Nat \ {0}
    PROVE  Quads(string, n) \in Quad
<1>1. ASSUME NEW i \in 1..4
      PROVE  (IF (n - 1) * 4 + i <= Len(string) THEN string[(n - 1) * 4 + i] ELSE 0) \in Byte
  <2>1. (n - 1) * 4 + i \in Nat \ {0} /\ 0 \in Byte
    BY FourBytes DEF Byte
  <2>2. (n - 1) * 4 + i <= Len(string) => (n - 1) * 4 + i \in 1..Len(string)
    BY <2>1, LenProperties
  <2> QED BY <2>1, <2>2, ElementOfSeq
<1> QED BY <1>1 DEF Quads, Quad

\* string_to_data, word by word.
LEMMA DataIs ==
    ASSUME NEW string \in Seq(Byte)
    PROVE  /\ Len(StringToData(string)) = NumberOfWords(string)
           /\ NumberOfWords(string) \in Nat
           /\ \A n \in 1..NumberOfWords(string) : StringToData(string)[n] = WordOf(Quads(string, n))
<1> DEFINE w == NumberOfWords(string)
           bytes(n) == [i \in 1..Word |->
                            LET at == (n - 1) * Word + i
                            IN  IF at <= Len(string) THEN string[at] ELSE 0]
<1>1. w \in Nat
  BY WordsAre, LenProperties DEF NumberOfWords
<1>2. StringToData(string) = [n \in 1..w |-> WordOf(bytes(n))]
  BY Zenon DEF StringToData
<1>3. ASSUME NEW n \in 1..w PROVE bytes(n) = Quads(string, n)
  <2>1. (n - 1) * Word = (n - 1) * 4
    BY <1>1, Times
  <2> QED BY <2>1, FourBytes DEF Quads
<1> HIDE DEF bytes, w
<1>4. StringToData(string) = [n \in 1..w |-> WordOf(Quads(string, n))]
  BY <1>2, <1>3
<1> QED BY <1>1, <1>4 DEF w

\* Writing leaves a memory.
LEMMA WrittenType ==
    ASSUME NEW mem \in Memory, NEW a \in Nat \ {0}, NEW string \in Seq(Byte), NEW k \in Nat
    PROVE  Written(mem, a, string, k) \in Memory
<1>1. ASSUME NEW x \in Address, x \in a..(a + 4 * k - 1), x - a < Len(string)
      PROVE  string[x - a + 1] \in Byte
  <2>1. x - a + 1 \in 1..Len(string)
    BY <1>1, LenProperties
  <2> QED BY <2>1, ElementOfSeq
<1>2. 0 \in Byte
  BY FourBytes DEF Byte
<1> QED BY <1>1, <1>2 DEF Written, Memory

\* Writing one more word.
LEMMA WrittenNext ==
    ASSUME NEW mem \in Memory, NEW a \in Nat \ {0}, NEW string \in Seq(Byte), NEW k \in Nat
    PROVE  Pokedata(Written(mem, a, string, k), a + k * Word, WordOf(Quads(string, k + 1)))
                = Written(mem, a, string, k + 1)
<1> DEFINE b == a + k * 4
           q == Quads(string, k + 1)
           old == Written(mem, a, string, k)
           new == Written(mem, a, string, k + 1)
<1>1. q \in Quad /\ old \in Memory /\ b \in Int /\ a + k * Word = b /\ Len(string) \in Nat
  <2>1. k + 1 \in Nat \ {0} /\ b \in Int /\ Len(string) \in Nat
    BY LenProperties
  <2>2. q \in Quad
    BY <2>1, QuadsType
  <2>3. old \in Memory
    BY WrittenType
  <2>4. a + k * Word = b
    BY Times
  <2> QED BY <2>1, <2>2, <2>3, <2>4
<1>2. Pokedata(old, b, WordOf(q)) =
        [x \in Address |-> IF x \in b..(b + 3) THEN q[x - b + 1] ELSE old[x]]
  <2> HIDE DEF q, old, b
  <2> QED BY <1>1, PokeIs
<1>3. ASSUME NEW x \in Address PROVE (IF x \in b..(b + 3) THEN q[x - b + 1] ELSE old[x]) = new[x]
  <2>0. x \in Int
    BY DEF Address
  <2>1. CASE x \in b..(b + 3)
    <3> DEFINE i == x - b + 1
    <3>1. i \in 1..4 /\ (k + 1 - 1) * 4 + i = x - a + 1 /\ x \in a..(a + 4 * (k + 1) - 1)
      BY <2>0, <2>1
    <3>2. q[i] = IF (k + 1 - 1) * 4 + i <= Len(string) THEN string[(k + 1 - 1) * 4 + i] ELSE 0
      <4> HIDE DEF i
      <4> QED BY <3>1 DEF Quads
    <3>3. x - a + 1 <= Len(string) <=> x - a < Len(string)
      BY <1>1, <2>0
    <3>4. new[x] = IF x - a < Len(string) THEN string[x - a + 1] ELSE 0
      BY <3>1 DEF Written
    <3> HIDE DEF new, q
    <3> QED BY <2>1, <3>1, <3>2, <3>3, <3>4
  <2>2. CASE x \notin b..(b + 3)
    <3>1. x \in a..(a + 4 * (k + 1) - 1) <=> x \in a..(a + 4 * k - 1)
      BY <2>0, <2>2
    <3> QED BY <2>2, <3>1 DEF Written
  <2> QED BY <2>1, <2>2
<1>4. new = [x \in Address |-> new[x]]
  BY DEF Written
<1> HIDE DEF old, new, q, b
<1>5. Pokedata(old, b, WordOf(q)) = new
  BY <1>2, <1>3, <1>4
<1> QED BY <1>1, <1>5 DEF old, new, q

\* poke_string writes the string and null bytes up to the end of a word.
LEMMA PokeStringIs ==
    ASSUME NEW mem \in Memory, NEW a \in Nat \ {0}, NEW string \in Seq(Byte)
    PROVE  /\ PokeString(mem, a, string) = Written(mem, a, string, NumberOfWords(string))
           /\ PokeString(mem, a, string) \in Memory
<1> DEFINE w == NumberOfWords(string)
           data == StringToData(string)
           Is(f) == f = [n \in 0..Len(data) |->
                            IF n = 0 THEN mem ELSE Pokedata(f[n - 1], a + (n - 1) * Word, data[n])]
           poked == CHOOSE f : Is(f)
           g == [n \in 0..w |-> Written(mem, a, string, n)]
<1>1. Len(data) = w /\ w \in Nat /\ \A n \in 1..w : data[n] = WordOf(Quads(string, n))
  BY DataIs
<1>2. PokeString(mem, a, string) = poked[Len(data)]
  BY Zenon DEF PokeString
<1> HIDE DEF w, data
<1>3. Written(mem, a, string, 0) = mem
  BY DEF Written, Memory, Address
<1>4. ASSUME NEW n \in 1..w
      PROVE  Pokedata(Written(mem, a, string, n - 1), a + (n - 1) * Word, data[n])
                = Written(mem, a, string, n)
  <2> DEFINE k == n - 1
  <2>1. k \in Nat /\ k + 1 = n
    BY <1>1
  <2> HIDE DEF k
  <2>2. Pokedata(Written(mem, a, string, k), a + k * Word, WordOf(Quads(string, k + 1)))
            = Written(mem, a, string, k + 1)
    BY <2>1, WrittenNext
  <2> QED BY <1>1, <2>1, <2>2 DEF k
<1>5. Is(g)
  <2>1. ASSUME NEW n \in 0..w, n # 0
        PROVE  Pokedata(g[n - 1], a + (n - 1) * Word, data[n]) = Written(mem, a, string, n)
    <3>1. n \in 1..w /\ n - 1 \in 0..w
      BY <1>1, <2>1
    <3> QED BY <1>4, <3>1
  <2>2. \A n \in 0..w :
          g[n] = IF n = 0 THEN mem ELSE Pokedata(g[n - 1], a + (n - 1) * Word, data[n])
    BY <1>3, <2>1
  <2>3. g = [n \in 0..w |-> g[n]]
    OBVIOUS
  <2> HIDE DEF g
  <2> QED BY <1>1, <2>2, <2>3
<1>6. Is(poked)
  BY <1>5
<1> HIDE DEF poked, g
<1>7. \A n \in 0..w :
        poked[n] = IF n = 0 THEN mem ELSE Pokedata(poked[n - 1], a + (n - 1) * Word, data[n])
  BY <1>1, <1>6
<1> DEFINE K == {k \in Nat : k <= w => poked[k] = Written(mem, a, string, k)}
<1>8. 0 \in K
  BY <1>1, <1>3, <1>7
<1>9. ASSUME NEW k \in Nat, k \in K PROVE k + 1 \in K
  <2> SUFFICES ASSUME k + 1 <= w PROVE poked[k + 1] = Written(mem, a, string, k + 1)
    OBVIOUS
  <2> DEFINE n == k + 1
  <2>1. n \in 1..w /\ n \in 0..w /\ n # 0 /\ n - 1 = k /\ k <= w
    BY <1>1
  <2> HIDE DEF n
  <2>2. poked[n] = Pokedata(poked[n - 1], a + (n - 1) * Word, data[n])
    BY <1>7, <2>1
  <2>3. poked[n] = Written(mem, a, string, n)
    BY <1>4, <1>9, <2>1, <2>2
  <2> QED BY <2>3 DEF n
<1> HIDE DEF K
<1>10. w \in K
  BY <1>1, <1>8, <1>9, SetInduction
<1>11. poked[w] = Written(mem, a, string, w)
  BY <1>1, <1>10 DEF K
<1>12. Written(mem, a, string, w) \in Memory
  BY <1>1, WrittenType
<1> QED BY <1>1, <1>2, <1>11, <1>12 DEF w

\* poke_string changes nothing but the words of the string.
LEMMA PokeChanges ==
    ASSUME NEW mem \in Memory, NEW a \in Nat \ {0}, NEW string \in Seq(Byte)
    PROVE  \A x \in Address : PokeString(mem, a, string)[x] # mem[x] =>
                x \in a..(a + 4 * NumberOfWords(string) - 1)
<1> DEFINE w == NumberOfWords(string)
<1>1. PokeString(mem, a, string) = Written(mem, a, string, w)
  BY PokeStringIs
<1> HIDE DEF w
<1>2. \A x \in Address : Written(mem, a, string, w)[x] # mem[x] => x \in a..(a + 4 * w - 1)
  BY DEF Written
<1> QED BY <1>1, <1>2 DEF w

\* The kernel reads what poke_string wrote.
THEOREM PokeStringAt ==
    ASSUME NEW mem \in Memory, NEW a \in Nat \ {0}, NEW string \in Seq(Byte \ {0}),
           a + Len(string) <= Size
    PROVE  StringAt(PokeString(mem, a, string), a) = string
<1> DEFINE new == PokeString(mem, a, string)
           e == a + Len(string)
           w == NumberOfWords(string)
           t == SubSeq(new, a, e - 1)
<1>1. string \in Seq(Byte) /\ Len(string) \in Nat /\ w \in Nat /\ 4 * w > Len(string)
  <2>1. string \in Seq(Byte)
    BY SeqMonotonic
  <2>2. Len(string) \in Nat
    BY LenProperties
  <2> QED BY <2>1, <2>2, WordsAre DEF NumberOfWords
<1>2. new = Written(mem, a, string, w) /\ new \in Memory
  BY <1>1, PokeStringIs
<1> HIDE DEF new, w
<1>3. e \in a..Size /\ e \in Address /\ e \in Nat
  BY <1>1, FourBytes DEF Address
<1>4. new[e] = 0
  <2>1. e \in a..(a + 4 * w - 1) /\ ~(e - a < Len(string))
    BY <1>1
  <2> HIDE DEF e
  <2> QED BY <1>2, <1>3, <2>1 DEF Written
<1>5. ASSUME NEW x \in a..(e - 1)
      PROVE  new[x] = string[x - a + 1] /\ x - a + 1 \in 1..Len(string)
  <2>1. /\ x \in Address /\ x \in a..(a + 4 * w - 1)
        /\ x - a < Len(string) /\ x - a + 1 \in 1..Len(string)
    BY <1>1, <1>3, FourBytes DEF Address
  <2> QED BY <1>2, <2>1 DEF Written
<1>6. \A i \in 1..Len(string) : string[i] # 0
  BY ElementOfSeq
<1>7. EndsAt(new, a, e)
  BY <1>3, <1>4, <1>5, <1>6 DEF EndsAt
<1>8. StringAt(new, a) = t
  BY <1>7, StringIs
<1>9. t = [i \in 1..(e - a) |-> new[a + i - 1]]
  <2> HIDE DEF e
  <2> QED BY <1>2, <1>3, PartIs
<1>10. ASSUME NEW i \in 1..Len(string) PROVE new[a + i - 1] = string[i]
  <2> DEFINE x == a + i - 1
  <2>1. x \in a..(e - 1) /\ x - a + 1 = i
    BY <1>1
  <2> HIDE DEF x, e
  <2>2. new[x] = string[x - a + 1]
    BY <1>5, <2>1
  <2> QED BY <2>1, <2>2 DEF x
<1>11. e - a = Len(string)
  BY <1>1
<1>12. string = [i \in 1..Len(string) |-> string[i]]
  OBVIOUS
<1> HIDE DEF e, t
<1>13. t = string
  BY <1>9, <1>10, <1>11, <1>12
<1> QED BY <1>8, <1>13 DEF new

-----------------------------------------------------------------------------
(***************************************************************************)
(* What the processes and the callbacks do in the directory.               *)
(***************************************************************************)
\* A failed call of the mock, between two of its steps in the directory.
LEMMA FailsKeeps ==
    ASSUME FilesInv, NEW k \in Keeper, Fails(k, "io")
    PROVE  FilesInv' /\ ([KeepsForeignFiles]_fileVars)
<1> USE DEF FilesInv
<1>1. FilesTyped'
  BY DEF Fails, FilesTyped, FilesTypeOK, Steady, WritesOpened
<1>2. Owned'
  <2>1. \A l \in Keeper : pc'[l] = "writing" => pc[l] = "writing" /\ opened'[l] = opened[l]
    BY DEF Fails, FilesTyped, FilesTypeOK
  <2> QED BY <2>1, QuietStep DEF Fails
<1>3. RanOutMeansFull'
  <2>1. ASSUME NEW l \in Keeper PROVE \A n \in Tried(l)' : files'[n] # NoFile \/ n \in freed'[l]
    <3>1. pc'[l] = "naming" =>
              pc[l] = "naming" /\ names'[l] = names[l] /\ freed[l] \subseteq freed'[l]
      BY DEF Fails, FilesTyped, FilesTypeOK
    <3>2. files' = files
      BY DEF Fails
    <3> QED BY <1>1, <3>1, <3>2, TriedStaysTaken
  <2> QED BY <2>1 DEF RanOutMeansFull
<1>4. KeepsForeignFiles
  BY DEF KeepsForeignFiles, Fails
<1> QED BY <1>1, <1>2, <1>3, <1>4

\* What the steps of MockExecutables do in the directory.
FilesMove == [FilesNext]_fileVars \/ Fails(Mine, "io")

\* A step of MockExecutables is one of ShortTempFiles, or a failure between two of them.
LEMMA StepsMoveFiles == [Next]_vars => FilesMove
<1> SUFFICES ASSUME [Next]_vars PROVE FilesMove
  OBVIOUS
<1> USE DEF FilesMove
<1>0. Mine \in Keeper
  BY MockExecutablesAssumption
<1>1. CASE FilesStep
  BY <1>0, <1>1 DEF FilesStep, FilesNext, KeeperStep
<1>2. ASSUME NEW p \in Process, HandleExecveEnter(p) PROVE FilesMove
  BY <1>0, <1>2 DEF HandleExecveEnter, FilesNext, KeeperStep
<1>3. ASSUME NEW p \in Process, PeekFails(p) \/ GetcwdFails(p) PROVE FilesMove
  BY <1>3 DEF PeekFails, GetcwdFails, MemoryFails
<1>4. ASSUME NEW p \in Process,
             \/ \E c \in Process : Fork(p, c) \/ Vfork(p, c)
             \/ \E c \in Call : Execve(p, c)
             \/ KernelExecve(p)
             \/ \E b \in Buffer : Getcwd(p, b)
             \/ \E a \in StatBuffer : Stat(p, a)
             \/ PokePath(p) \/ HandleGetcwdExit(p) \/ HandleStatExit(p)
      PROVE  UNCHANGED fileVars
  BY <1>4 DEF Fork, Vfork, Execve, KernelExecve, Getcwd, Stat, PokePath, HandleGetcwdExit,
              HandleStatExit
<1>5. CASE UNCHANGED vars
  BY <1>5 DEF vars
<1> QED BY <1>1, <1>2, <1>3, <1>4, <1>5 DEF Next

\* The directory keeps its invariant whatever the processes do.
LEMMA FilesInvNext ==
    ASSUME FilesInv, FilesMove
    PROVE  FilesInv'
<1>1. CASE [FilesNext]_fileVars
  BY <1>1, FilesTypedNext, OwnedNext, FullNext DEF FilesInv
<1>2. CASE Fails(Mine, "io")
  BY <1>2, FailsKeeps, MockExecutablesAssumption
<1> QED BY <1>1, <1>2 DEF FilesMove

\* A serial that was given has one name for good.
Named(s, n) ==
    /\ s \in Nat /\ s <= created[Mine] /\ (pc[Mine] = "writing" => s < created[Mine])
    /\ \A i \in DOMAIN temporary_executables[Mine] :
        temporary_executables[Mine][i].serial = s => temporary_executables[Mine][i].name = n

\* A serial keeps its name: it is not given again, and mocks are only added and dropped.
LEMMA NamedStays ==
    ASSUME FilesInv, FilesMove, NEW s, NEW n, Named(s, n)
    PROVE  Named(s, n)'
<1> DEFINE te == temporary_executables
<1> USE DEF Named, FilesInv, FilesTyped, FilesTypeOK
<1>0. Mine \in Keeper /\ created[Mine] \in Nat /\ te[Mine] \in Seq(TempFile)
  BY MockExecutablesAssumption
<1>1. ASSUME NEW k \in Keeper, TryName(k) PROVE Named(s, n)'
  <2>1. CASE Create(k, NextName(names[k]))
    <3>1. te' = te /\ (k = Mine => created'[Mine] = created[Mine] + 1)
             /\ (k # Mine => created'[Mine] = created[Mine] /\ pc'[Mine] = pc[Mine])
      BY <1>0, <2>1 DEF Create
    <3> QED BY <1>0, <3>1
  <2>2. CASE UNCHANGED <<files, pc, opened, temporary_executables, failure, created, freed,
                         cleaned>>
    BY <2>2
  <2> QED BY <1>1, <2>1, <2>2 DEF TryName
<1>2. ASSUME NEW k \in Keeper, WriteContents(k) PROVE Named(s, n)'
  <2>1. CASE k = Mine
    <3> DEFINE m == [name |-> opened[k], serial |-> created[k]]
    <3>1. te'[Mine] = Append(te[Mine], m) /\ pc'[Mine] = "idle" /\ created' = created
             /\ pc[Mine] = "writing"
      BY <1>0, <1>2, <2>1 DEF WriteContents
    <3>2. opened[Mine] \in Name
      BY <1>0, <3>1 DEF WritesOpened
    <3>3. m \in TempFile
      BY <1>0, <2>1, <3>2 DEF TempFile
    <3>4. m.serial = created[Mine]
      BY <2>1
    <3> HIDE DEF m, te
    <3>5. /\ Len(te'[Mine]) = Len(te[Mine]) + 1 /\ te'[Mine][Len(te[Mine]) + 1] = m
          /\ \A i \in 1..Len(te[Mine]) : te'[Mine][i] = te[Mine][i]
          /\ te'[Mine] \in Seq(TempFile)
      BY <1>0, <3>1, <3>3, AppendProperties
    <3>6. DOMAIN te'[Mine] = 1..(Len(te[Mine]) + 1) /\ DOMAIN te[Mine] = 1..Len(te[Mine])
             /\ Len(te[Mine]) \in Nat
      BY <1>0, <3>5, LenProperties
    <3>7. \A i \in DOMAIN te'[Mine] : te'[Mine][i].serial = s => te'[Mine][i].name = n
      <4>1. ASSUME NEW i \in DOMAIN te'[Mine], te'[Mine][i].serial = s PROVE te'[Mine][i].name = n
        <5>1. i # Len(te[Mine]) + 1
          BY <1>0, <3>1, <3>4, <3>5, <4>1 DEF te
        <5>2. i \in DOMAIN te[Mine]
          BY <3>6, <4>1, <5>1
        <5> QED BY <3>5, <3>6, <4>1, <5>2 DEF te
      <4> QED BY <4>1
    <3> QED BY <1>0, <3>1, <3>7 DEF te
  <2>2. CASE k # Mine
    BY <1>0, <1>2, <2>2 DEF WriteContents
  <2> QED BY <2>1, <2>2
<1>3. ASSUME NEW k \in Keeper, DropFile(k) PROVE Named(s, n)'
  <2>1. CASE k = Mine
    <3>1. /\ te'[Mine] = Tail(te[Mine]) /\ te[Mine] # <<>>
          /\ created' = created /\ pc'[Mine] # "writing"
      BY <1>0, <1>3, <2>1 DEF DropFile
    <3> HIDE DEF te
    <3>2. /\ Len(te'[Mine]) = Len(te[Mine]) - 1 /\ te'[Mine] \in Seq(TempFile)
          /\ \A i \in 1..Len(te'[Mine]) : te'[Mine][i] = te[Mine][i + 1]
      BY <1>0, <3>1, HeadTailProperties
    <3>3. ASSUME NEW i \in DOMAIN te'[Mine]
          PROVE  i + 1 \in DOMAIN te[Mine] /\ te'[Mine][i] = te[Mine][i + 1]
      <4>1. DOMAIN te'[Mine] = 1..Len(te'[Mine]) /\ DOMAIN te[Mine] = 1..Len(te[Mine])
        BY <1>0, <3>2, LenProperties
      <4>2. Len(te[Mine]) \in Nat
        BY <1>0, LenProperties
      <4> DEFINE l == Len(te[Mine])
                 t == te'[Mine]
                 u == te[Mine]
      <4>3. l \in Nat /\ i \in 1..(l - 1)
        BY <3>2, <3>3, <4>1, <4>2
      <4>4. i + 1 \in 1..l
        <5> HIDE DEF l
        <5> QED BY <4>3
      <4> QED BY <3>2, <3>3, <4>1, <4>4
    <3>4. \A i \in DOMAIN te'[Mine] : te'[Mine][i].serial = s => te'[Mine][i].name = n
      BY <3>3 DEF te
    <3> QED BY <1>0, <3>1, <3>4 DEF te
  <2>2. CASE k # Mine
    BY <1>0, <1>3, <2>2 DEF DropFile
  <2> QED BY <2>1, <2>2
<1>4. ASSUME NEW k \in Keeper,
             \/ New(k) \/ RanOut(k) \/ IoFails(k) \/ DropMock(k) \/ AllDropped(k) \/ KeeperKilled(k)
             \/ Fails(k, "io")
      PROVE  Named(s, n)'
  <2>1. te' = te /\ created' = created /\ (pc'[Mine] = "writing" => pc[Mine] = "writing")
    BY <1>0, <1>4 DEF New, RanOut, IoFails, Fails, DropMock, AllDropped, KeeperKilled
  <2> QED BY <2>1
<1>5. ASSUME NEW m \in Name, OtherCreates(m) \/ OtherRemoves(m) \/ Clean(m) PROVE Named(s, n)'
  BY <1>5 DEF OtherCreates, OtherRemoves, Clean
<1>6. CASE UNCHANGED fileVars
  BY <1>6 DEF fileVars
<1> QED BY <1>0, <1>1, <1>2, <1>3, <1>4, <1>5, <1>6 DEF FilesMove, FilesNext, KeeperStep, OthersStep

-----------------------------------------------------------------------------
(***************************************************************************)
(* The inductive invariant.  A process is about to execute a path that the *)
(* callback wrote over that of its own command, and the serial of its mock *)
(* has that name; nobody else writes to its memory until then, because     *)
(* who shares it is suspended; and but for the buffers of the queries the  *)
(* memory in which no path was overwritten is as in the image.             *)
(***************************************************************************)
ProcessesTyped ==
    /\ pstate \in [Process -> ProcessState]
    /\ space \in [Process -> Process]
    /\ memory \in [Process -> Memory]
    /\ callback \in Process \cup {NoProcess}
    /\ mock \in [Process -> Nat]
    /\ tainted \subseteq Process
    /\ queries \in 0..MaxQueries

\* The registers hold what the process called with.
CalledWith(p) ==
    /\ pstate[p] \in {"enter", "kernel"} =>
        \E c \in Call : registers[p] = [rdi |-> c.path, rsi |-> c.argv]
    /\ pstate[p] = "getcwd" =>
        \E b \in Buffer : registers[p] = [rdi |-> b.at, rsi |-> b.size]
    /\ pstate[p] = "stat" => \E a \in StatBuffer : registers[p] = [rdi |-> 0, rsi |-> a]

RegistersTyped == DOMAIN registers = Process /\ \A p \in Process : CalledWith(p)

\* Who shares the memory of another process has suspended it.
Shared ==
    /\ \A p \in Process : space[p] # p =>
        space[space[p]] = space[p] /\ pstate[space[p]] = "vfork"
    /\ \A p, q \in Process : p # q /\ space[p] = space[q] => space[p] \in {p, q}

\* While an execve is handled its path is mapped, and a mock is made for it or
\* scriptkeeper fails.
CallbackWaits ==
    callback # NoProcess =>
        /\ pstate[callback] = "enter"
        /\ Mapped(registers[callback].rdi)
        /\ pc[Mine] = "idle" => temporary_executables[Mine] # <<>>
        /\ pc[Mine] = "dropping" => failure[Mine] # "none"

PathIs(p, n) ==
    /\ StringAt(memory[space[p]], registers[p].rdi) = <<Slash>> \o n
    /\ Named(mock[p], n)

PathWritten == \A p \in Process : pstate[p] = "kernel" => \E n \in Name : PathIs(p, n)

MemoryKept == \A s \in Process \ tainted : Kept(memory[s])

IInv ==
    /\ FilesInv /\ ProcessesTyped /\ RegistersTyped /\ Shared
    /\ CallbackWaits /\ PathWritten /\ MemoryKept

\* The path of a mock, and the name in it.
LEMMA PathText ==
    ASSUME NEW n \in Name
    PROVE  /\ <<Slash>> \o n \in Seq(Byte \ {0})
           /\ Len(<<Slash>> \o n) = 3
           /\ Tail(<<Slash>> \o n) = n
<1> DEFINE S == Byte \ {0}
           t == <<Slash>> \o n
<1>1. Slash \in S /\ 1..Digits \subseteq S
  BY MockExecutablesAssumption, ShortTempFilesAssumption, FourBytes DEF Byte
<1>2. n \in Seq(S) /\ Len(n) = 2
  <2>1. n = <<n[1], n[2]>> /\ n[1] \in S /\ n[2] \in S
    BY <1>1 DEF Name
  <2> HIDE DEF S
  <2>2. <<n[1], n[2]>> \in Seq(S) /\ Len(<<n[1], n[2]>>) = 2
    BY <2>1
  <2> QED BY <2>1, <2>2
<1> HIDE DEF S
<1>3. <<Slash>> \in Seq(S) /\ Len(<<Slash>>) = 1 /\ <<Slash>>[1] = Slash
  BY <1>1
<1>4. /\ t \in Seq(S) /\ Len(t) = 3
      /\ \A i \in 1..3 : t[i] = IF i <= 1 THEN Slash ELSE n[i - 1]
  <2> DEFINE h == <<Slash>>
  <2>1. h \in Seq(S) /\ Len(h) = 1 /\ h[1] = Slash
    BY <1>3
  <2>2. /\ h \o n \in Seq(S) /\ Len(h \o n) = Len(h) + Len(n)
        /\ \A i \in 1..Len(h) + Len(n) : (h \o n)[i] = IF i <= Len(h) THEN h[i] ELSE n[i - Len(h)]
    <3> HIDE DEF h
    <3> QED BY <1>2, <2>1, ConcatProperties
  <2>3. t = h \o n
    OBVIOUS
  <2> HIDE DEF t, h
  <2> QED BY <1>2, <2>1, <2>2, <2>3
<1> HIDE DEF t
<1>5. t # <<>>
  BY <1>4
<1>6. /\ Tail(t) \in Seq(S) /\ Len(Tail(t)) = 2
      /\ \A i \in 1..2 : Tail(t)[i] = t[i + 1]
  <2> DEFINE u == Tail(t)
  <2>1. u \in Seq(S) /\ Len(u) = Len(t) - 1 /\ \A i \in 1..Len(u) : u[i] = t[i + 1]
    BY <1>4, <1>5, HeadTailProperties
  <2> HIDE DEF u
  <2>2. Len(u) = 2
    BY <1>4, <2>1
  <2> QED BY <2>1, <2>2 DEF u
<1>7. \A i \in 1..2 : t[i + 1] = n[i]
  BY <1>4
<1>8. Tail(t) = n
  BY <1>2, <1>6, <1>7, SeqEqual
<1> QED BY <1>4, <1>8 DEF S, t

\* The last mock has a name, which its serial will keep.
LEMMA LastMockIs ==
    ASSUME FilesInv, temporary_executables[Mine] # <<>>, pc[Mine] # "writing"
    PROVE  LastMock.name \in Name /\ Named(LastMock.serial, LastMock.name)
<1> DEFINE te == temporary_executables[Mine]
           l == Len(te)
<1>0. Mine \in Keeper
  BY MockExecutablesAssumption
<1>1. te \in Seq(TempFile) /\ l \in Nat /\ l \in DOMAIN te /\ DOMAIN te = 1..l
  BY <1>0, LenProperties, EmptySeq DEF FilesInv, FilesTyped, FilesTypeOK
<1>2. LastMock = te[l]
  BY DEF LastMock
<1>3. \A i \in DOMAIN te : te[i].name \in Name /\ te[i].serial \in Nat
  BY <1>0, MockType DEF FilesInv, FilesTyped
<1>4. te[l].serial <= created[Mine]
  BY <1>0, <1>1 DEF FilesInv, Owned, SerialsRise
<1>5. ASSUME NEW i \in DOMAIN te, te[i].serial = te[l].serial PROVE te[i].name = te[l].name
  <2>1. i < l => te[i].serial < te[l].serial
    BY <1>0, <1>1 DEF FilesInv, Owned, SerialsRise
  <2>2. i = l
    <3> HIDE DEF te, l
    <3> QED BY <1>1, <1>3, <1>5, <2>1
  <2> QED BY <2>2
<1> QED BY <1>1, <1>2, <1>3, <1>4, <1>5 DEF Named

\* What a callback writes into the memory of its process, and where.
LEMMA PathPoked ==
    ASSUME IInv, NEW p \in Process, PokePath(p)
    PROVE  LET mem == memory[space[p]]
               a == registers[p].rdi
               new == PokeString(mem, a, <<Slash>> \o LastMock.name) IN
           /\ new \in Memory
           /\ StringAt(new, a) = <<Slash>> \o LastMock.name
           /\ LastMock.name \in Name
           /\ Named(LastMock.serial, LastMock.name)
<1> DEFINE mem == memory[space[p]]
           a == registers[p].rdi
           text == <<Slash>> \o LastMock.name
<1>1. pstate[p] = "enter" /\ Mapped(a) /\ temporary_executables[Mine] # <<>> /\ pc[Mine] = "idle"
  BY MockExecutablesAssumption DEF PokePath, IInv, CallbackWaits
<1>2. LastMock.name \in Name /\ Named(LastMock.serial, LastMock.name)
  BY <1>1, LastMockIs DEF IInv
<1>3. mem \in Memory
  BY DEF IInv, ProcessesTyped
<1>4. a \in Nat \ {0} /\ a + 3 <= Size
  <2>1. PICK c \in Call : registers[p] = [rdi |-> c.path, rsi |-> c.argv]
    BY <1>1 DEF IInv, RegistersTyped, CalledWith
  <2>2. a = c.path /\ c.path \in Address
    BY <2>1, MockExecutablesAssumption
  <2> QED BY <1>1, <2>2, FourBytes DEF Mapped, Address
<1>5. text \in Seq(Byte \ {0}) /\ Len(text) = 3
  BY <1>2, PathText
<1> HIDE DEF mem, a, text
<1>6. text \in Seq(Byte)
  <2>1. Byte \ {0} \subseteq Byte
    OBVIOUS
  <2> QED BY <1>5, <2>1, SeqMonotonic
<1>7. PokeString(mem, a, text) \in Memory
  BY <1>3, <1>4, <1>6, PokeStringIs
<1>8. StringAt(PokeString(mem, a, text), a) = text
  BY <1>3, <1>4, <1>5, PokeStringAt
<1> QED BY <1>2, <1>7, <1>8 DEF mem, a, text

\* The callback of getcwd.
LEMMA CwdPoked ==
    ASSUME IInv, NEW p \in Process, HandleGetcwdExit(p)
    PROVE  LET mem == memory[space[p]]
               r == registers[p]
               new == PokeString(mem, r.rdi, MockCwd) IN
           /\ new \in Memory
           /\ StringAt(new, r.rdi) = MockCwd
           /\ Len(MockCwd) < r.rsi
           /\ OnlyChanges(mem, new, r.rdi, r.rdi + RoundedUp(r.rsi) - 1)
           /\ r.rsi % Word = 0 => \A x \in Address : new[x] # mem[x] => x \in Queried
<1> DEFINE mem == memory[space[p]]
           a == registers[p].rdi
           size == registers[p].rsi
           w == NumberOfWords(MockCwd)
<1>1. PICK b \in Buffer : registers[p] = [rdi |-> b.at, rsi |-> b.size]
  BY DEF HandleGetcwdExit, IInv, RegistersTyped, CalledWith
<1>2. a = b.at /\ size = b.size /\ a \in Address /\ size \in Nat
  BY <1>1, MockExecutablesAssumption
<1>3. mem \in Memory
  BY DEF IInv, ProcessesTyped
<1>4. MockCwd \in Seq(Byte \ {0}) /\ MockCwd \in Seq(Byte) /\ Len(MockCwd) \in Nat
  <2>1. MockCwd \in Seq(Byte \ {0}) /\ Byte \ {0} \subseteq Byte
    BY MockExecutablesAssumption
  <2> QED BY <2>1, SeqMonotonic, LenProperties
<1>5. Len(MockCwd) < size
  BY <1>2, <1>4 DEF HandleGetcwdExit, CwdTooLong, TooLong
<1>6. a \in Nat \ {0}
  BY <1>2 DEF Address
<1>7. /\ w \in Nat /\ 4 * w > Len(MockCwd) /\ 4 * w <= RoundedUp(size)
      /\ size % Word = 0 => 4 * w <= size
  BY <1>2, <1>4, <1>5, WordsAre DEF NumberOfWords
<1>8. Mapped(a + (w - 1) * Word)
  <2>1. w \in 1..w
    BY <1>4, <1>7
  <2> QED BY <2>1 DEF HandleGetcwdExit, WordsMapped
<1>9. (w - 1) * Word = (w - 1) * 4
  BY <1>7, Times
<1> HIDE DEF mem, a, w, size
<1>10. a + Len(MockCwd) <= Size
  BY <1>4, <1>6, <1>7, <1>8, <1>9, FourBytes DEF Mapped, Address
<1> DEFINE new == PokeString(mem, a, MockCwd)
<1>11. new \in Memory
  BY <1>3, <1>4, <1>6, PokeStringIs
<1>12. StringAt(new, a) = MockCwd
  BY <1>3, <1>4, <1>6, <1>10, PokeStringAt
<1>13. \A x \in Address : new[x] # mem[x] => x \in a..(a + 4 * w - 1)
  BY <1>3, <1>4, <1>6, PokeChanges DEF w
<1> HIDE DEF new
<1>14. OnlyChanges(mem, new, a, a + RoundedUp(size) - 1)
  <2>1. RoundedUp(size) \in Int
    BY <1>2, FourBytes DEF RoundedUp
  <2>2. \A x \in a..(a + 4 * w - 1) : x \in a..(a + RoundedUp(size) - 1)
    BY <1>6, <1>7, <2>1
  <2> QED BY <1>13, <2>2 DEF OnlyChanges
<1>15. ASSUME size % Word = 0, NEW x \in Address, new[x] # mem[x] PROVE x \in Queried
  <2>1. x \in b.at..(b.at + b.size - 1)
    BY <1>2, <1>6, <1>7, <1>13, <1>15
  <2> QED BY <2>1 DEF Queried
<1> QED BY <1>5, <1>11, <1>12, <1>14, <1>15 DEF mem, a, size, new

\* The callback of stat.
LEMMA ModePoked ==
    ASSUME IInv, NEW p \in Process, pstate[p] = "stat"
    PROVE  LET mem == memory[space[p]]
               a == registers[p].rsi
               new == PokeFourBytes(mem, a, MockMode) IN
           /\ new \in Memory
           /\ HalfWord(new, a) = Bytes(MockMode, Word \div 2)
           /\ OnlyChanges(mem, new, a, a + (Word \div 2) - 1)
           /\ \A x \in Address : new[x] # mem[x] => x \in Queried
<1> DEFINE mem == memory[space[p]]
           a == registers[p].rsi
           new == PokeFourBytes(mem, a, MockMode)
           half == Bytes(MockMode, 2)
<1>1. PICK b \in StatBuffer : registers[p] = [rdi |-> 0, rsi |-> b]
  BY DEF IInv, RegistersTyped, CalledWith
<1>2. a = b /\ b \in Address /\ Mapped(b) /\ MockMode \in Nat
  BY <1>1, MockExecutablesAssumption
<1>3. mem \in Memory
  BY DEF IInv, ProcessesTyped
<1>4. a \in Int /\ Mapped(a)
  BY <1>2 DEF Address
<1> HIDE DEF mem, a
<1>5. /\ new = [x \in Address |-> IF x \in a..(a + 1) THEN half[x - a + 1] ELSE mem[x]]
      /\ new \in Memory
  BY <1>2, <1>3, <1>4, HalfIs
<1>6. half = [i \in 1..2 |-> half[i]]
  BY <1>2, BytesType
<1> HIDE DEF new, half
<1>7. a + (Word \div 2) - 1 = a + 1 /\ Word \div 2 = 2
  BY <1>4, FourBytes
<1>8. OnlyChanges(mem, new, a, a + (Word \div 2) - 1)
  BY <1>5, <1>7 DEF OnlyChanges
<1>9. HalfWord(new, a) = Bytes(MockMode, Word \div 2)
  <2>1. ASSUME NEW i \in 1..2 PROVE new[a + i - 1] = half[i]
    <3>1. a + i - 1 \in Address /\ a + i - 1 \in a..(a + 1) /\ (a + i - 1) - a + 1 = i
      BY <1>4, FourBytes DEF Mapped, Address
    <3> QED BY <1>5, <3>1
  <2>2. HalfWord(new, a) = [i \in 1..2 |-> new[a + i - 1]]
    BY <1>7 DEF HalfWord
  <2>3. HalfWord(new, a) = half
    BY <1>6, <2>1, <2>2
  <2> QED BY <1>7, <2>3 DEF half
<1>10. ASSUME NEW x \in Address, new[x] # mem[x] PROVE x \in Queried
  <2>1. x \in b..(b + (Word \div 2) - 1)
    BY <1>2, <1>8, <1>10 DEF OnlyChanges
  <2> QED BY <2>1 DEF Queried
<1> QED BY <1>5, <1>8, <1>9, <1>10 DEF mem, a, new

-----------------------------------------------------------------------------
(***************************************************************************)
(* The steps, one part of the invariant after the other.                   *)
(***************************************************************************)
\* A step of one process, or of the callback that handles its syscall.
ProcessStep(p) ==
    \/ \E c \in Process : Fork(p, c) \/ Vfork(p, c)
    \/ \E c \in Call : Execve(p, c)
    \/ KernelExecve(p)
    \/ \E b \in Buffer : Getcwd(p, b)
    \/ \E a \in StatBuffer : Stat(p, a)
    \/ HandleExecveEnter(p) \/ PeekFails(p) \/ PokePath(p)
    \/ HandleGetcwdExit(p) \/ GetcwdFails(p) \/ HandleStatExit(p)

\* A step is one of a process or its callback, or one in the directory.
LEMMA SomeStep ==
    ASSUME [Next]_vars
    PROVE  (\E p \in Process : ProcessStep(p)) \/ FilesStep \/ UNCHANGED vars
BY DEF Next, ProcessStep

\* Two processes of which none is suspended share no memory.
LEMMA Alone ==
    ASSUME Shared, NEW p \in Process, NEW q \in Process, p # q,
           pstate[p] # "vfork", pstate[q] # "vfork"
    PROVE  space[p] # space[q]
<1> SUFFICES ASSUME space[p] = space[q] PROVE FALSE
  OBVIOUS
<1>1. space[p] \in {p, q}
  BY DEF Shared
<1>2. CASE space[p] = p
  BY <1>2 DEF Shared
<1>3. CASE space[p] = q
  BY <1>3 DEF Shared
<1> QED BY <1>1, <1>2, <1>3

\* What only queries write leaves the rest.
LEMMA KeptStill ==
    ASSUME NEW mem, Kept(mem), NEW new \in Memory,
           \A x \in Address : new[x] # mem[x] => x \in Queried
    PROVE  Kept(new)
BY DEF Kept

\* One memory changes, and is tainted unless only what queries write changes.
LEMMA OneMemory ==
    ASSUME IInv, NEW s \in Process, NEW new \in Memory,
           memory' = [memory EXCEPT ![s] = new],
           tainted \subseteq tainted', tainted' \subseteq Process,
           \/ s \in tainted'
           \/ \A x \in Address : new[x] # memory[s][x] => x \in Queried
    PROVE  memory' \in [Process -> Memory] /\ MemoryKept'
<1>1. memory' \in [Process -> Memory]
  BY DEF IInv, ProcessesTyped
<1>2. ASSUME NEW t \in Process \ tainted' PROVE Kept(memory'[t])
  <2>1. Kept(memory[t])
    BY <1>2 DEF IInv, MemoryKept
  <2>2. CASE t = s
    <3>1. memory'[t] = new
      BY <2>2 DEF IInv, ProcessesTyped
    <3> QED BY <1>2, <2>1, <2>2, <3>1, KeptStill
  <2>3. CASE t # s
    <3>1. memory'[t] = memory[t]
      BY <2>3 DEF IInv, ProcessesTyped
    <3> QED BY <2>1, <3>1
  <2> QED BY <2>2, <2>3
<1>3. Queried' = Queried /\ Address' = Address
  BY DEF Queried, Address
<1> QED BY <1>1, <1>2 DEF MemoryKept, Kept

\* A fresh image has been overwritten nowhere.
LEMMA ImageKept == Kept(Image)
BY MockExecutablesAssumption DEF Kept

\* The kernel's getcwd.
LEMMA CwdWritten ==
    ASSUME IInv, NEW p \in Process, NEW b \in Buffer, Getcwd(p, b)
    PROVE  memory' \in [Process -> Memory] /\ MemoryKept'
<1> DEFINE mem == memory[space[p]]
           l == Len(RealCwd)
           text == Append(RealCwd, 0)
           new == IF l >= b.size THEN mem
                  ELSE [x \in Address |->
                           IF x \in b.at..(b.at + l) THEN text[x - b.at + 1] ELSE mem[x]]
<1>1. memory' = [memory EXCEPT ![space[p]] = new]
  BY DEF Getcwd
<1>2. mem \in Memory /\ space[p] \in Process
  BY DEF IInv, ProcessesTyped
<1>3. RealCwd \in Seq(Byte) /\ l \in Nat /\ 0 \in Byte
  <2>1. RealCwd \in Seq(Byte \ {0}) /\ Byte \ {0} \subseteq Byte
    BY MockExecutablesAssumption
  <2> QED BY <2>1, SeqMonotonic, LenProperties, FourBytes DEF Byte
<1>4. text \in Seq(Byte) /\ Len(text) = l + 1
  BY <1>3, AppendProperties
<1>5. b.at \in Nat /\ b.size \in Nat
  BY MockExecutablesAssumption DEF Address
<1> HIDE DEF mem, text, l
<1>6. ASSUME NEW x \in Address, x \in b.at..(b.at + l) PROVE text[x - b.at + 1] \in Byte
  <2>1. x - b.at + 1 \in 1..Len(text)
    BY <1>3, <1>4, <1>5, <1>6
  <2> QED BY <1>4, <2>1, ElementOfSeq
<1>7. new \in Memory
  BY <1>2, <1>6 DEF Memory
<1>8. ASSUME NEW x \in Address, new[x] # mem[x] PROVE x \in Queried
  <2>1. ~(l >= b.size) /\ x \in b.at..(b.at + l)
    BY <1>2, <1>8 DEF Memory
  <2>2. x \in b.at..(b.at + b.size - 1)
    BY <1>3, <1>5, <2>1
  <2> QED BY <2>2 DEF Queried
<1>9. tainted' = tainted /\ tainted \subseteq Process
  BY DEF Getcwd, IInv, ProcessesTyped
<1> HIDE DEF new
<1> QED BY <1>1, <1>2, <1>7, <1>8, <1>9, OneMemory DEF mem

\* Memories stay memories, and as in the image but for queries.
LEMMA MemoryNext ==
    ASSUME IInv, [Next]_vars
    PROVE  memory' \in [Process -> Memory] /\ tainted' \subseteq Process /\ MemoryKept'
<1> DEFINE Goal == memory' \in [Process -> Memory] /\ tainted' \subseteq Process /\ MemoryKept'
<1>0. memory \in [Process -> Memory] /\ tainted \subseteq Process /\ space \in [Process -> Process]
  BY DEF IInv, ProcessesTyped
<1>1. ASSUME NEW p \in Process, NEW c \in Process, Fork(p, c) PROVE Goal
  <2>1. memory' = [memory EXCEPT ![c] = memory[space[p]]] /\ memory[space[p]] \in Memory
    BY <1>0, <1>1 DEF Fork
  <2>2. memory' \in [Process -> Memory]
    BY <1>0, <2>1
  <2>3. /\ tainted \subseteq tainted' /\ tainted' \subseteq Process
        /\ space[p] \in tainted => c \in tainted'
    BY <1>0, <1>1 DEF Fork
  <2>4. ASSUME NEW t \in Process \ tainted' PROVE Kept(memory'[t])
    <3>1. CASE t = c
      <4>1. memory'[t] = memory[space[p]] /\ space[p] \in Process \ tainted
        BY <1>0, <2>1, <2>3, <2>4, <3>1
      <4> QED BY <4>1 DEF IInv, MemoryKept
    <3>2. CASE t # c
      <4>1. memory'[t] = memory[t] /\ t \in Process \ tainted
        BY <1>0, <2>1, <2>3, <2>4, <3>2
      <4> QED BY <4>1 DEF IInv, MemoryKept
    <3> QED BY <3>1, <3>2
  <2> QED BY <2>2, <2>3, <2>4 DEF MemoryKept, Kept
<1>2. ASSUME NEW p \in Process, KernelExecve(p) PROVE Goal
  <2>1. CASE memory' = memory /\ tainted' = tainted
    BY <1>0, <2>1 DEF IInv, MemoryKept, Kept
  <2>2. CASE memory' = [memory EXCEPT ![p] = Image] /\ tainted' = tainted \ {p}
    <3>1. memory' \in [Process -> Memory]
      BY <1>0, <2>2, MockExecutablesAssumption
    <3>2. ASSUME NEW t \in Process \ tainted' PROVE Kept(memory'[t])
      <4>1. t = p => memory'[t] = Image
        BY <1>0, <2>2
      <4>2. t # p => memory'[t] = memory[t] /\ t \in Process \ tainted
        BY <1>0, <2>2, <3>2
      <4> QED BY <4>1, <4>2, ImageKept DEF IInv, MemoryKept
    <3> QED BY <1>0, <2>2, <3>1, <3>2 DEF MemoryKept, Kept
  <2> QED BY <1>2, <2>1, <2>2 DEF KernelExecve
<1>3. ASSUME NEW p \in Process, NEW b \in Buffer, Getcwd(p, b) PROVE Goal
  BY <1>0, <1>3, CwdWritten DEF Getcwd
<1>4. ASSUME NEW p \in Process, PokePath(p) PROVE Goal
  <2> DEFINE new == PokeString(memory[space[p]], registers[p].rdi, <<Slash>> \o LastMock.name)
  <2>1. new \in Memory
    BY <1>4, PathPoked
  <2>2. memory' = [memory EXCEPT ![space[p]] = new] /\ tainted' = tainted \cup {space[p]}
    BY <1>4 DEF PokePath
  <2>3. /\ space[p] \in Process /\ space[p] \in tainted'
        /\ tainted \subseteq tainted' /\ tainted' \subseteq Process
    BY <1>0, <2>2
  <2> HIDE DEF new
  <2> QED BY <2>1, <2>2, <2>3, OneMemory
<1>5. ASSUME NEW p \in Process, HandleGetcwdExit(p) PROVE Goal
  <2> DEFINE new == PokeString(memory[space[p]], registers[p].rdi, MockCwd)
  <2>1. new \in Memory
    BY <1>5, CwdPoked
  <2>2. /\ memory' = [memory EXCEPT ![space[p]] = new]
        /\ tainted' = IF registers[p].rsi % Word = 0 THEN tainted ELSE tainted \cup {space[p]}
    BY <1>5 DEF HandleGetcwdExit
  <2>3. space[p] \in Process /\ tainted \subseteq tainted' /\ tainted' \subseteq Process
    BY <1>0, <2>2
  <2>4. \/ space[p] \in tainted'
        \/ \A x \in Address : new[x] # memory[space[p]][x] => x \in Queried
    <3>1. CASE registers[p].rsi % Word = 0
      BY <1>5, <3>1, CwdPoked
    <3>2. CASE ~(registers[p].rsi % Word = 0)
      <4>1. tainted' = tainted \cup {space[p]}
        BY <2>2, <3>2
      <4> QED BY <4>1
    <3> QED BY <3>1, <3>2
  <2> HIDE DEF new
  <2> QED BY <2>1, <2>2, <2>3, <2>4, OneMemory
<1>6. ASSUME NEW p \in Process, HandleStatExit(p) PROVE Goal
  <2> DEFINE new == PokeFourBytes(memory[space[p]], registers[p].rsi, MockMode)
  <2>0. pstate[p] = "stat"
    BY <1>6 DEF HandleStatExit
  <2>1. new \in Memory /\ \A x \in Address : new[x] # memory[space[p]][x] => x \in Queried
    BY <2>0, ModePoked
  <2>2. memory' = [memory EXCEPT ![space[p]] = new] /\ tainted' = tainted
    BY <1>6 DEF HandleStatExit
  <2> HIDE DEF new
  <2> QED BY <1>0, <2>1, <2>2, OneMemory
<1>7. ASSUME memory' = memory, tainted' = tainted PROVE Goal
  BY <1>0, <1>7 DEF IInv, MemoryKept, Kept
<1>8. ASSUME NEW p \in Process,
             \/ \E c \in Process : Vfork(p, c)
             \/ \E c \in Call : Execve(p, c)
             \/ \E a \in StatBuffer : Stat(p, a)
             \/ HandleExecveEnter(p) \/ PeekFails(p) \/ GetcwdFails(p)
      PROVE  memory' = memory /\ tainted' = tainted
  BY <1>8 DEF Vfork, Execve, Stat, HandleExecveEnter, PeekFails, GetcwdFails, MemoryFails,
              processVars
<1>9. ASSUME FilesStep PROVE Goal
  BY <1>7, <1>9 DEF FilesStep, processVars
<1>10. ASSUME UNCHANGED vars PROVE Goal
  BY <1>7, <1>10 DEF vars, processVars
<1> HIDE DEF Goal
<1>11. ASSUME NEW p \in Process, ProcessStep(p) PROVE Goal
  <2>1. \/ \E c \in Process : Fork(p, c)
        \/ KernelExecve(p)
        \/ \E b \in Buffer : Getcwd(p, b)
        \/ PokePath(p) \/ HandleGetcwdExit(p) \/ HandleStatExit(p)
        \/ \/ \E c \in Process : Vfork(p, c)
           \/ \E c \in Call : Execve(p, c)
           \/ \E a \in StatBuffer : Stat(p, a)
           \/ HandleExecveEnter(p) \/ PeekFails(p) \/ GetcwdFails(p)
    BY <1>11, Zenon DEF ProcessStep
  <2> QED BY <1>1, <1>2, <1>3, <1>4, <1>5, <1>6, <1>7, <1>8, <2>1, Zenon
<1>12. (\E p \in Process : ProcessStep(p)) \/ FilesStep \/ UNCHANGED vars
  BY SomeStep
<1>13. Goal
  BY <1>9, <1>10, <1>11, <1>12
<1> QED BY <1>13 DEF Goal

\* A path that was read without error starts with a mapped word.
LEMMA FirstWordMapped ==
    ASSUME NEW mem, NEW a \in Nat \ {0}, ~Failed(PeekString(mem, a))
    PROVE  Mapped(a)
<1>1. PICK f : /\ PeekString(mem, a) = f[0]
               /\ \A i \in 0..Size : f[i] =
                    IF StringStops(mem, a + i * Word) THEN Piece(mem, a + i * Word)
                    ELSE Piece(mem, a + i * Word) \o f[i + 1]
  BY StringChain
<1>2. a + 0 * Word = a /\ 0 \in 0..Size
  BY FourBytes
<1>3. f[0] = IF StringStops(mem, a) THEN Piece(mem, a) ELSE Piece(mem, a) \o f[0 + 1]
  BY <1>1, <1>2
<1> SUFFICES ASSUME ~Mapped(a) PROVE FALSE
  OBVIOUS
<1>4. f[0] = <<Fault>>
  BY <1>3, PieceUnmapped
<1> QED BY <1>1, <1>4, FaultFails

\* Every step keeps the types of the variables of the processes.
LEMMA ProcessesTypedNext ==
    ASSUME IInv, [Next]_vars
    PROVE  ProcessesTyped'
<1> DEFINE Goal == /\ pstate' \in [Process -> ProcessState]
                   /\ space' \in [Process -> Process]
                   /\ callback' \in Process \cup {NoProcess}
                   /\ mock' \in [Process -> Nat]
                   /\ queries' \in 0..MaxQueries
<1>0. ProcessesTyped
  BY DEF IInv
<1>1. ASSUME NEW p \in Process, NEW c \in Process, Fork(p, c) \/ Vfork(p, c) PROVE Goal
  BY <1>0, <1>1 DEF Fork, Vfork, ProcessesTyped, ProcessState
<1>2. ASSUME NEW p \in Process, NEW c \in Call, Execve(p, c) PROVE Goal
  BY <1>0, <1>2 DEF Execve, ProcessesTyped, ProcessState
<1>3. ASSUME NEW p \in Process, KernelExecve(p) PROVE Goal
  <2>1. pstate' \in [Process -> ProcessState]
    BY <1>0, <1>3 DEF KernelExecve, Leaves, ProcessesTyped, ProcessState
  <2>2. space' \in [Process -> Process]
    BY <1>0, <1>3 DEF KernelExecve, ProcessesTyped
  <2> QED BY <1>0, <1>3, <2>1, <2>2 DEF KernelExecve, ProcessesTyped
<1>4. ASSUME NEW p \in Process,
             (\E b \in Buffer : Getcwd(p, b)) \/ (\E a \in StatBuffer : Stat(p, a))
      PROVE  Goal
  <2>1. queries' = queries + 1 /\ queries < MaxQueries
    BY <1>4 DEF Getcwd, Stat, Undisturbed
  <2>2. queries' \in 0..MaxQueries
    BY <1>0, <2>1, MockExecutablesAssumption DEF ProcessesTyped
  <2> QED BY <1>0, <1>4, <2>2 DEF Getcwd, Stat, ProcessesTyped, ProcessState
<1>5. ASSUME NEW p \in Process, HandleExecveEnter(p) PROVE Goal
  BY <1>0, <1>5 DEF HandleExecveEnter, ProcessesTyped
<1>6. ASSUME NEW p \in Process, PokePath(p) PROVE Goal
  <2>1. LastMock.serial \in Nat
    BY <1>6, PathPoked DEF Named
  <2> QED BY <1>0, <1>6, <2>1 DEF PokePath, ProcessesTyped, ProcessState
<1>7. ASSUME NEW p \in Process, HandleGetcwdExit(p) \/ HandleStatExit(p) PROVE Goal
  BY <1>0, <1>7 DEF HandleGetcwdExit, HandleStatExit, ProcessesTyped, ProcessState
<1>8. ASSUME NEW p \in Process, PeekFails(p) \/ GetcwdFails(p) PROVE Goal
  BY <1>0, <1>8 DEF PeekFails, GetcwdFails, MemoryFails, processVars, ProcessesTyped
<1>9. ASSUME FilesStep \/ UNCHANGED vars PROVE Goal
  BY <1>0, <1>9 DEF FilesStep, vars, processVars, ProcessesTyped
<1> HIDE DEF Goal
<1>10. ASSUME NEW p \in Process, ProcessStep(p) PROVE Goal
  BY <1>1, <1>2, <1>3, <1>4, <1>5, <1>6, <1>7, <1>8, <1>10, Zenon DEF ProcessStep
<1>11. Goal
  BY <1>9, <1>10, SomeStep
<1> QED BY <1>11, MemoryNext DEF Goal, ProcessesTyped, ProcessState

\* Whose registers do not change and who makes no other syscall.
LEMMA CalledStill ==
    ASSUME NEW q \in Process, CalledWith(q), registers'[q] = registers[q],
           \/ pstate'[q] \in {"none", "user", "vfork", pstate[q]}
           \/ pstate[q] = "enter" /\ pstate'[q] = "kernel"
    PROVE  CalledWith(q)'
BY DEF CalledWith

\* The registers hold the arguments of the call that is under way.
LEMMA RegistersNext ==
    ASSUME IInv, [Next]_vars
    PROVE  RegistersTyped'
<1> DEFINE Goal == RegistersTyped'
<1>0. /\ ProcessesTyped /\ DOMAIN registers = Process
      /\ \A q \in Process : CalledWith(q)
  BY DEF IInv, RegistersTyped
<1>1. ASSUME NEW p \in Process,
             \/ \E c \in Process : Fork(p, c)
             \/ \E c \in Process : Vfork(p, c)
             \/ HandleExecveEnter(p) \/ PokePath(p)
             \/ PeekFails(p) \/ GetcwdFails(p)
      PROVE  Goal
  <2>1. registers' = registers
    BY <1>1 DEF Fork, Vfork, HandleExecveEnter, PokePath, PeekFails, GetcwdFails, MemoryFails,
                processVars
  <2>2. ASSUME NEW q \in Process
        PROVE  \/ pstate'[q] \in {"none", "user", "vfork", pstate[q]}
               \/ pstate[q] = "enter" /\ pstate'[q] = "kernel"
    <3>1. CASE PokePath(p)
      <4>1. pstate[p] = "enter" /\ pstate' = [pstate EXCEPT ![p] = "kernel"]
        BY <3>1, MockExecutablesAssumption DEF PokePath, IInv, CallbackWaits
      <4> QED BY <1>0, <4>1 DEF ProcessesTyped
    <3>2. CASE ~PokePath(p)
      BY <1>0, <1>1, <3>2 DEF ProcessesTyped, Fork, Vfork, HandleExecveEnter, PeekFails,
            GetcwdFails, MemoryFails, processVars
    <3> QED BY <3>1, <3>2
  <2>3. \A q \in Process : CalledWith(q)'
    BY <1>0, <2>1, <2>2, CalledStill
  <2> QED BY <1>0, <2>1, <2>3 DEF RegistersTyped
<1>2. ASSUME NEW p \in Process, NEW r,
             registers' = [registers EXCEPT ![p] = r], CalledWith(p)',
             \A q \in Process \ {p} : pstate'[q] \in {"user", pstate[q]}
      PROVE  Goal
  <2>1. DOMAIN registers' = Process /\ \A q \in Process \ {p} : registers'[q] = registers[q]
    BY <1>0, <1>2
  <2>2. \A q \in Process \ {p} : CalledWith(q)'
    BY <1>0, <1>2, <2>1, CalledStill
  <2> QED BY <1>2, <2>1, <2>2 DEF RegistersTyped
<1> HIDE DEF Goal
<1>3. ASSUME NEW p \in Process, NEW c \in Call, Execve(p, c) PROVE Goal
  <2> DEFINE r == [rdi |-> c.path, rsi |-> c.argv]
  <2>1. registers' = [registers EXCEPT ![p] = r] /\ registers'[p] = r
           /\ pstate' = [pstate EXCEPT ![p] = "enter"] /\ pstate'[p] = "enter"
    BY <1>0, <1>3 DEF Execve, ProcessesTyped
  <2>2. CalledWith(p)'
    BY <2>1 DEF CalledWith
  <2>3. \A q \in Process \ {p} : pstate'[q] = pstate[q]
    BY <1>0, <2>1 DEF ProcessesTyped
  <2> QED BY <1>2, <2>1, <2>2, <2>3
<1>4. ASSUME NEW p \in Process, NEW b \in Buffer, Getcwd(p, b) PROVE Goal
  <2> DEFINE r == [rdi |-> b.at, rsi |-> b.size]
  <2>1. registers' = [registers EXCEPT ![p] = r] /\ registers'[p] = r
           /\ pstate' = [pstate EXCEPT ![p] = "getcwd"] /\ pstate'[p] = "getcwd"
    BY <1>0, <1>4 DEF Getcwd, ProcessesTyped
  <2>2. CalledWith(p)'
    BY <2>1 DEF CalledWith
  <2>3. \A q \in Process \ {p} : pstate'[q] = pstate[q]
    BY <1>0, <2>1 DEF ProcessesTyped
  <2> QED BY <1>2, <2>1, <2>2, <2>3
<1>5. ASSUME NEW p \in Process, NEW a \in StatBuffer, Stat(p, a) PROVE Goal
  <2> DEFINE r == [rdi |-> 0, rsi |-> a]
  <2>1. registers' = [registers EXCEPT ![p] = r] /\ registers'[p] = r
           /\ pstate' = [pstate EXCEPT ![p] = "stat"] /\ pstate'[p] = "stat"
    BY <1>0, <1>5 DEF Stat, ProcessesTyped
  <2>2. CalledWith(p)'
    BY <2>1 DEF CalledWith
  <2>3. \A q \in Process \ {p} : pstate'[q] = pstate[q]
    BY <1>0, <2>1 DEF ProcessesTyped
  <2> QED BY <1>2, <2>1, <2>2, <2>3
<1>6. ASSUME NEW p \in Process, KernelExecve(p) \/ HandleGetcwdExit(p) \/ HandleStatExit(p)
      PROVE  Goal
  <2>1. registers' = [registers EXCEPT ![p] = NoRegisters]
    BY <1>6 DEF KernelExecve, HandleGetcwdExit, HandleStatExit
  <2>2. /\ pstate'[p] \in {"none", "user"}
        /\ \A q \in Process \ {p} : pstate'[q] \in {"user", pstate[q]}
    BY <1>0, <1>6 DEF KernelExecve, Leaves, HandleGetcwdExit, HandleStatExit, ProcessesTyped
  <2>3. CalledWith(p)'
    BY <2>2 DEF CalledWith
  <2> QED BY <1>2, <2>1, <2>2, <2>3
<1>7. ASSUME FilesStep \/ UNCHANGED vars PROVE Goal
  <2>1. registers' = registers /\ pstate' = pstate
    BY <1>7 DEF FilesStep, vars, processVars
  <2>2. \A q \in Process : CalledWith(q)'
    BY <1>0, <2>1, CalledStill
  <2> QED BY <1>0, <2>1, <2>2 DEF Goal, RegistersTyped
<1>8. ASSUME NEW p \in Process, ProcessStep(p) PROVE Goal
  BY <1>1, <1>3, <1>4, <1>5, <1>6, <1>8, Zenon DEF ProcessStep
<1>9. Goal
  BY <1>7, <1>8, SomeStep
<1> QED BY <1>9 DEF Goal

\* Who shares the memory of another one has suspended it: fork, vfork and execve.
LEMMA SharedNext ==
    ASSUME IInv, [Next]_vars
    PROVE  Shared'
<1> DEFINE Goal == Shared'
<1>0. Shared /\ pstate \in [Process -> ProcessState] /\ space \in [Process -> Process]
  BY DEF IInv, ProcessesTyped
<1>1. ASSUME space' = space, \A q \in Process : pstate[q] = "vfork" => pstate'[q] = "vfork"
      PROVE  Goal
  BY <1>0, <1>1 DEF Shared
<1>2. ASSUME NEW p \in Process, NEW c \in Process, Fork(p, c) PROVE Goal
  <2>1. /\ pstate[c] = "none" /\ pstate' = [pstate EXCEPT ![c] = "user"]
        /\ space' = [space EXCEPT ![c] = c]
    BY <1>2 DEF Fork
  <2>2. \A q \in Process : space'[q] = (IF q = c THEN c ELSE space[q])
                           /\ pstate'[q] = (IF q = c THEN "user" ELSE pstate[q])
    BY <1>0, <2>1
  <2>3. ASSUME NEW q \in Process, space'[q] # q
        PROVE  space'[space'[q]] = space'[q] /\ pstate'[space'[q]] = "vfork"
    <3>1. space'[q] = space[q] /\ space[q] # q
      BY <2>2, <2>3
    <3>2. space[space[q]] = space[q] /\ pstate[space[q]] = "vfork" /\ space[q] \in Process
      BY <1>0, <3>1 DEF Shared
    <3>3. space[q] # c
      BY <2>1, <3>2
    <3> QED BY <2>2, <3>1, <3>2, <3>3
  <2>4. \A q, r \in Process : q # r /\ space'[q] = space'[r] => space'[q] \in {q, r}
    BY <1>0, <2>2 DEF Shared
  <2> QED BY <2>3, <2>4 DEF Shared
<1>3. ASSUME NEW p \in Process, NEW c \in Process, Vfork(p, c) PROVE Goal
  <2>1. /\ pstate[p] = "user" /\ pstate[c] = "none" /\ space[p] = p
        /\ pstate' = [pstate EXCEPT ![c] = "user", ![p] = "vfork"]
        /\ space' = [space EXCEPT ![c] = p]
    BY <1>3 DEF Vfork, Runs
  <2>2. \A q \in Process :
           /\ space'[q] = IF q = c THEN p ELSE space[q]
           /\ pstate'[q] = IF q = p THEN "vfork" ELSE IF q = c THEN "user" ELSE pstate[q]
    BY <1>0, <2>1
  <2>3. ASSUME NEW q \in Process, space'[q] # q
        PROVE  space'[space'[q]] = space'[q] /\ pstate'[space'[q]] = "vfork"
    <3>1. CASE q = c
      BY <2>1, <2>2, <3>1
    <3>2. CASE q # c
      <4>1. space'[q] = space[q] /\ space[q] # q
        BY <2>2, <2>3, <3>2
      <4>2. space[space[q]] = space[q] /\ pstate[space[q]] = "vfork" /\ space[q] \in Process
        BY <1>0, <4>1 DEF Shared
      <4>3. space[q] # c
        BY <2>1, <4>2
      <4> QED BY <2>2, <4>1, <4>2, <4>3
    <3> QED BY <3>1, <3>2
  <2>4. ASSUME NEW q \in Process, q # p PROVE space[q] # p
    BY <1>0, <2>1, <2>4 DEF Shared
  <2>5. \A q, r \in Process : q # r /\ space'[q] = space'[r] => space'[q] \in {q, r}
    BY <1>0, <2>2, <2>4 DEF Shared
  <2> QED BY <2>3, <2>5 DEF Shared
<1>4. ASSUME NEW p \in Process, KernelExecve(p), FileToExecute(p) # NoFile PROVE Goal
  <2>1. pstate[p] = "kernel" /\ Leaves(p) /\ space' = [space EXCEPT ![p] = p]
    BY <1>4 DEF KernelExecve
  <2>2. \A q \in Process :
           /\ space'[q] = IF q = p THEN p ELSE space[q]
           /\ q # p /\ pstate[q] = "vfork" /\ space[q] # space[p] => pstate'[q] = "vfork"
    BY <1>0, <2>1 DEF Leaves
  <2>3. ASSUME NEW q \in Process, space'[q] # q
        PROVE  space'[space'[q]] = space'[q] /\ pstate'[space'[q]] = "vfork"
    <3>1. q # p /\ space'[q] = space[q] /\ space[q] # q
      BY <2>2, <2>3
    <3>2. space[space[q]] = space[q] /\ pstate[space[q]] = "vfork" /\ space[q] \in Process
      BY <1>0, <3>1 DEF Shared
    <3>3. space[q] # p
      BY <2>1, <3>2
    <3>4. space[q] # space[p]
      BY <1>0, <3>1, <3>3 DEF Shared
    <3> QED BY <2>2, <3>1, <3>2, <3>3, <3>4
  <2>4. \A q, r \in Process : q # r /\ space'[q] = space'[r] => space'[q] \in {q, r}
    BY <1>0, <2>2 DEF Shared
  <2> QED BY <2>3, <2>4 DEF Shared
<1>5. ASSUME NEW p \in Process, KernelExecve(p), FileToExecute(p) = NoFile PROVE Goal
  BY <1>0, <1>1, <1>5 DEF KernelExecve
<1>6. ASSUME NEW p \in Process,
             \/ \E c \in Call : Execve(p, c)
             \/ \E b \in Buffer : Getcwd(p, b)
             \/ \E a \in StatBuffer : Stat(p, a)
             \/ HandleGetcwdExit(p) \/ HandleStatExit(p)
      PROVE  Goal
  <2>1. space' = space /\ pstate[p] # "vfork"
    BY <1>6 DEF Execve, Getcwd, Stat, Runs, HandleGetcwdExit, HandleStatExit
  <2>2. \A q \in Process \ {p} : pstate'[q] = pstate[q]
    BY <1>0, <1>6 DEF Execve, Getcwd, Stat, HandleGetcwdExit, HandleStatExit
  <2> QED BY <1>1, <2>1, <2>2
<1>7. ASSUME NEW p \in Process, PokePath(p) PROVE Goal
  <2>1. pstate[p] = "enter" /\ pstate' = [pstate EXCEPT ![p] = "kernel"] /\ space' = space
    BY <1>7, MockExecutablesAssumption DEF PokePath, IInv, CallbackWaits
  <2>2. \A q \in Process \ {p} : pstate'[q] = pstate[q]
    BY <1>0, <2>1
  <2> QED BY <1>1, <2>1, <2>2
<1>8. ASSUME NEW p \in Process, HandleExecveEnter(p) \/ PeekFails(p) \/ GetcwdFails(p) PROVE Goal
  BY <1>1, <1>8 DEF HandleExecveEnter, PeekFails, GetcwdFails, MemoryFails, processVars
<1>9. ASSUME FilesStep \/ UNCHANGED vars PROVE Goal
  BY <1>1, <1>9 DEF FilesStep, vars, processVars
<1> HIDE DEF Goal
<1>10. ASSUME NEW p \in Process, ProcessStep(p) PROVE Goal
  BY <1>2, <1>3, <1>4, <1>5, <1>6, <1>7, <1>8, <1>10, Zenon DEF ProcessStep
<1>11. Goal
  BY <1>9, <1>10, SomeStep
<1> QED BY <1>11 DEF Goal

\* While the mock is made its execve waits, and there is a mock when it goes on.
LEMMA CallbackNext ==
    ASSUME IInv, [Next]_vars
    PROVE  CallbackWaits'
<1> DEFINE Goal == CallbackWaits'
           te == temporary_executables
<1>0. /\ pstate \in [Process -> ProcessState] /\ space \in [Process -> Process]
      /\ callback \in Process \cup {NoProcess} /\ NoProcess \notin Process
      /\ Mine \in Keeper /\ CallbackWaits /\ FilesTypeOK /\ DOMAIN registers = Process
  BY MockExecutablesAssumption DEF IInv, ProcessesTyped, FilesInv, FilesTyped, RegistersTyped
<1>1. ASSUME callback' = callback, UNCHANGED fileVars,
             callback # NoProcess =>
                 pstate'[callback] = pstate[callback] /\ registers'[callback] = registers[callback]
      PROVE  Goal
  BY <1>0, <1>1 DEF CallbackWaits, fileVars, Mapped, Address
<1>2. ASSUME NEW p \in Process,
             \/ \E c \in Process : Fork(p, c) \/ Vfork(p, c)
             \/ \E c \in Call : Execve(p, c)
             \/ \E b \in Buffer : Getcwd(p, b)
             \/ \E a \in StatBuffer : Stat(p, a)
             \/ HandleGetcwdExit(p) \/ HandleStatExit(p)
      PROVE  Goal
  <2>1. callback' = callback /\ UNCHANGED fileVars
    BY <1>2 DEF Fork, Vfork, Execve, Getcwd, Stat, HandleGetcwdExit, HandleStatExit
  <2>2. ASSUME callback # NoProcess
        PROVE  pstate'[callback] = pstate[callback] /\ registers'[callback] = registers[callback]
    <3>1. callback \in Process /\ pstate[callback] = "enter"
      BY <1>0, <2>2 DEF CallbackWaits
    <3> QED BY <1>0, <1>2, <2>2, <3>1
              DEF Fork, Vfork, Execve, Getcwd, Stat, HandleGetcwdExit, HandleStatExit,
                  Runs, Handling
  <2> QED BY <1>1, <2>1, <2>2
<1>3. ASSUME NEW p \in Process, KernelExecve(p) PROVE Goal
  <2>1. callback' = callback /\ UNCHANGED fileVars
    BY <1>3 DEF KernelExecve
  <2>2. ASSUME callback # NoProcess
        PROVE  pstate'[callback] = pstate[callback] /\ registers'[callback] = registers[callback]
    <3>1. callback \in Process /\ pstate[callback] = "enter"
      BY <1>0, <2>2 DEF CallbackWaits
    <3> QED BY <1>0, <1>3, <3>1 DEF KernelExecve, Leaves
  <2> QED BY <1>1, <2>1, <2>2
<1>4. ASSUME NEW p \in Process, PokePath(p) PROVE Goal
  BY <1>4 DEF PokePath, CallbackWaits
<1>5. ASSUME NEW p \in Process, PeekFails(p) \/ GetcwdFails(p) PROVE Goal
  BY <1>5 DEF PeekFails, GetcwdFails, MemoryFails, Handling, processVars, CallbackWaits
<1>6. ASSUME NEW p \in Process, HandleExecveEnter(p) PROVE Goal
  <2>1. /\ pstate[p] = "enter" /\ callback' = p /\ UNCHANGED <<pstate, registers>>
        /\ pc'[Mine] = "naming" /\ ~CommandFails(PeekCommand(p))
    BY <1>0, <1>6 DEF HandleExecveEnter, New, FilesTypeOK
  <2> DEFINE mem == memory[space[p]]
             a == registers[p].rdi
  <2>2. ~Failed(PeekString(mem, a))
    BY <2>1 DEF CommandFails, PeekCommand
  <2>3. PICK c \in Call : registers[p] = [rdi |-> c.path, rsi |-> c.argv]
    BY <2>1 DEF IInv, RegistersTyped, CalledWith
  <2>4. a \in Nat \ {0}
    BY <2>3, MockExecutablesAssumption DEF Address
  <2>5. Mapped(a)
    <3> HIDE DEF mem, a
    <3> QED BY <2>2, <2>4, FirstWordMapped
  <2> QED BY <2>1, <2>5 DEF CallbackWaits, Mapped, Address
<1>7. ASSUME UNCHANGED vars PROVE Goal
  BY <1>1, <1>7 DEF vars, processVars
<1>8. ASSUME FilesStep, callback # NoProcess
      PROVE  /\ pc'[Mine] = "idle" => te'[Mine] # <<>>
             /\ pc'[Mine] = "dropping" => failure'[Mine] # "none"
  <2> DEFINE Waits == /\ pc'[Mine] = "idle" => te'[Mine] # <<>>
                      /\ pc'[Mine] = "dropping" => failure'[Mine] # "none"
  <2>0. /\ pc[Mine] = "idle" => te[Mine] # <<>>
        /\ pc[Mine] = "dropping" => failure[Mine] # "none"
    BY <1>0, <1>8 DEF CallbackWaits
  <2>1. ASSUME NEW k \in Keeper \ {Mine}, KeeperStep(k) PROVE Waits
    <3>1. pc'[Mine] = pc[Mine] /\ te'[Mine] = te[Mine] /\ failure'[Mine] = failure[Mine]
      BY <1>0, <2>1 DEF FilesTypeOK, KeeperStep, New, TryName, Create, RanOut, IoFails, Fails,
           WriteContents, DropMock, DropFile, AllDropped, KeeperKilled
    <3> QED BY <2>0, <3>1
  <2>2. ASSUME NEW n \in Name, OtherCreates(n) \/ OtherRemoves(n) \/ Clean(n) PROVE Waits
    BY <2>0, <2>2 DEF OtherCreates, OtherRemoves, Clean
  <2>3. ASSUME TryName(Mine) PROVE Waits
    BY <1>0, <2>0, <2>3 DEF TryName, Create, FilesTypeOK
  <2>4. ASSUME RanOut(Mine) \/ IoFails(Mine) PROVE Waits
    BY <1>0, <2>4 DEF RanOut, IoFails, Fails, FilesTypeOK
  <2>5. ASSUME WriteContents(Mine) PROVE Waits
    <3> DEFINE m == [name |-> opened[Mine], serial |-> created[Mine]]
    <3>1. pc'[Mine] = "idle" /\ te'[Mine] = Append(te[Mine], m)
      BY <1>0, <2>5 DEF WriteContents, FilesTypeOK
    <3>2. opened[Mine] \in Name
      BY <1>0, <2>5 DEF WriteContents, IInv, FilesInv, FilesTyped, WritesOpened
    <3>3. m \in TempFile /\ te[Mine] \in Seq(TempFile)
      BY <1>0, <3>2 DEF FilesTypeOK, TempFile
    <3> HIDE DEF m, te
    <3>4. Len(te'[Mine]) = Len(te[Mine]) + 1 /\ Len(te[Mine]) \in Nat
      BY <3>1, <3>3, AppendProperties, LenProperties
    <3>5. te'[Mine] # <<>>
      BY <3>4
    <3> QED BY <3>1, <3>5 DEF te
  <2>6. ASSUME DropFile(Mine) PROVE Waits
    BY <1>0, <2>0, <2>6 DEF DropFile, FilesTypeOK
  <2>7. ASSUME AllDropped(Mine) \/ KeeperKilled(Mine) PROVE Waits
    BY <1>0, <2>0, <2>7 DEF AllDropped, KeeperKilled, FilesTypeOK
  <2> HIDE DEF Waits
  <2>8. Waits
    BY <1>8, <2>1, <2>2, <2>3, <2>4, <2>5, <2>6, <2>7 DEF FilesStep, OthersStep, Handling
  <2> QED BY <2>8 DEF Waits
<1>9. ASSUME FilesStep PROVE Goal
  <2>1. callback' = callback /\ pstate' = pstate /\ registers' = registers
    BY <1>9 DEF FilesStep, processVars
  <2> QED BY <1>0, <1>8, <1>9, <2>1 DEF CallbackWaits, Mapped, Address
<1> HIDE DEF Goal
<1>10. ASSUME NEW p \in Process, ProcessStep(p) PROVE Goal
  BY <1>2, <1>3, <1>4, <1>5, <1>6, <1>10, Zenon DEF ProcessStep
<1>11. Goal
  BY <1>7, <1>9, <1>10, SomeStep
<1> QED BY <1>11 DEF Goal

\* A path that nobody writes to stays the path of its mock.
LEMMA PathStays ==
    ASSUME IInv, [Next]_vars, NEW q \in Process, pstate[q] = "kernel",
           memory'[space'[q]] = memory[space[q]],
           registers'[q] = registers[q], mock'[q] = mock[q]
    PROVE  \E n \in Name : PathIs(q, n)'
<1>0. PICK s : mock[q] = s
  OBVIOUS
<1>1. PICK n \in Name :
        StringAt(memory[space[q]], registers[q].rdi) = <<Slash>> \o n /\ Named(s, n)
  BY <1>0 DEF IInv, PathWritten, PathIs
<1>2. Named(s, n)' /\ mock'[q] = s
  BY <1>0, <1>1, NamedStays, StepsMoveFiles DEF IInv
<1>3. Named(mock[q], n)'
  BY <1>2 DEF Named
<1>4. StringAt(memory[space[q]], registers[q].rdi)' = <<Slash>> \o n
  BY <1>1 DEF StringAt
<1> QED BY <1>3, <1>4 DEF PathIs

\* What the kernel is about to execute was written by the callback of that process.
LEMMA PathNext ==
    ASSUME IInv, [Next]_vars
    PROVE  PathWritten'
<1> SUFFICES ASSUME NEW q \in Process, pstate'[q] = "kernel"
             PROVE  \E n \in Name : PathIs(q, n)'
  BY DEF PathWritten, Name
<1> DEFINE Goal == \E n \in Name : PathIs(q, n)'
<1>0. /\ pstate \in [Process -> ProcessState] /\ space \in [Process -> Process]
      /\ memory \in [Process -> Memory] /\ mock \in [Process -> Nat]
      /\ DOMAIN registers = Process /\ Shared
  BY DEF IInv, ProcessesTyped, RegistersTyped
<1>1. ASSUME pstate[q] = "kernel", space' = space, memory' = memory,
             registers'[q] = registers[q], mock'[q] = mock[q]
      PROVE  Goal
  BY <1>1, PathStays
\* Another process changes its own memory.
<1>2. ASSUME NEW p \in Process, p # q, pstate[p] # "vfork", pstate[q] = "kernel",
             NEW new, memory' = [memory EXCEPT ![space[p]] = new],
             space'[q] = space[q], registers'[q] = registers[q], mock'[q] = mock[q]
      PROVE  Goal
  <2>1. space[p] # space[q] /\ space[q] \in Process
    BY <1>0, <1>2, Alone
  <2>2. memory'[space'[q]] = memory[space[q]]
    BY <1>0, <1>2, <2>1
  <2> QED BY <1>2, <2>2, PathStays
<1>3. ASSUME NEW p \in Process, NEW c \in Process, Fork(p, c) PROVE Goal
  <2>1. pstate[c] = "none" /\ q # c /\ pstate[q] = "kernel"
    BY <1>0, <1>3 DEF Fork
  <2>2. space[q] # c
    BY <1>0, <2>1 DEF Shared
  <2>3. memory'[space'[q]] = memory[space[q]] /\ registers' = registers /\ mock' = mock
    BY <1>0, <1>3, <2>1, <2>2 DEF Fork
  <2> QED BY <2>1, <2>3, PathStays
<1>4. ASSUME NEW p \in Process, NEW c \in Process, Vfork(p, c) PROVE Goal
  <2>1. q # c /\ q # p /\ pstate[q] = "kernel"
    BY <1>0, <1>4 DEF Vfork
  <2>2. memory'[space'[q]] = memory[space[q]] /\ registers' = registers /\ mock' = mock
    BY <1>0, <1>4, <2>1 DEF Vfork
  <2> QED BY <2>1, <2>2, PathStays
<1>5. ASSUME NEW p \in Process,
             (\E c \in Call : Execve(p, c)) \/ (\E a \in StatBuffer : Stat(p, a))
      PROVE  Goal
  <2>1. /\ space' = space /\ memory' = memory /\ pstate'[p] # "kernel"
        /\ \A r \in Process \ {p} :
            pstate'[r] = pstate[r] /\ registers'[r] = registers[r] /\ mock'[r] = mock[r]
    BY <1>0, <1>5 DEF Execve, Stat
  <2>2. q \in Process \ {p}
    BY <2>1
  <2> QED BY <1>1, <2>1, <2>2
<1>6. ASSUME NEW p \in Process, KernelExecve(p) PROVE Goal
  <2>1. pstate[p] = "kernel" /\ pstate'[p] # "kernel" /\ q # p
    BY <1>0, <1>6 DEF KernelExecve, Leaves
  <2>2. pstate[q] = "kernel" /\ registers'[q] = registers[q] /\ mock'[q] = mock[q]
           /\ space'[q] = space[q]
    BY <1>0, <1>6, <2>1 DEF KernelExecve, Leaves
  <2>3. CASE memory' = memory
    BY <2>2, <2>3, PathStays
  <2>4. CASE space[p] = p /\ memory' = [memory EXCEPT ![p] = Image]
    BY <1>2, <2>1, <2>2, <2>4
  <2> QED BY <1>6, <2>3, <2>4 DEF KernelExecve
<1>7. ASSUME NEW p \in Process, NEW b \in Buffer, Getcwd(p, b) PROVE Goal
  <2>1. /\ pstate[p] = "user" /\ pstate'[p] = "getcwd" /\ q # p
        /\ pstate[q] = "kernel" /\ space' = space /\ registers'[q] = registers[q] /\ mock' = mock
    BY <1>0, <1>7 DEF Getcwd, Runs
  <2>2. PICK new : memory' = [memory EXCEPT ![space[p]] = new]
    BY <1>7 DEF Getcwd
  <2> QED BY <1>2, <2>1, <2>2
<1>8. ASSUME NEW p \in Process, HandleGetcwdExit(p) \/ HandleStatExit(p) PROVE Goal
  <2>1. /\ pstate[p] # "vfork" /\ pstate'[p] = "user" /\ q # p
        /\ pstate[q] = "kernel" /\ space' = space /\ registers'[q] = registers[q] /\ mock' = mock
    BY <1>0, <1>8 DEF HandleGetcwdExit, HandleStatExit
  <2>2. PICK new : memory' = [memory EXCEPT ![space[p]] = new]
    BY <1>8 DEF HandleGetcwdExit, HandleStatExit
  <2> QED BY <1>2, <2>1, <2>2
<1>9. ASSUME NEW p \in Process, PokePath(p) PROVE Goal
  <2> DEFINE a == registers[p].rdi
             new == PokeString(memory[space[p]], a, <<Slash>> \o LastMock.name)
  <2>1. /\ memory' = [memory EXCEPT ![space[p]] = new] /\ space' = space /\ registers' = registers
        /\ mock' = [mock EXCEPT ![p] = LastMock.serial] /\ UNCHANGED fileVars
        /\ pstate' = [pstate EXCEPT ![p] = "kernel"]
    BY <1>9 DEF PokePath
  <2>2. pstate[p] = "enter"
    BY <1>9, MockExecutablesAssumption DEF PokePath, IInv, CallbackWaits
  <2>3. CASE q # p
    <3>1. pstate[q] = "kernel" /\ mock'[q] = mock[q]
      BY <1>0, <2>1, <2>3
    <3> HIDE DEF new
    <3> QED BY <1>2, <2>1, <2>2, <2>3, <3>1
  <2>4. CASE q = p
    <3>1. /\ StringAt(new, a) = <<Slash>> \o LastMock.name
          /\ LastMock.name \in Name /\ Named(LastMock.serial, LastMock.name)
      BY <1>9, PathPoked
    <3>2. memory'[space'[p]] = new /\ registers'[p].rdi = a /\ mock'[p] = LastMock.serial
      <4> HIDE DEF new
      <4> QED BY <1>0, <2>1
    <3> HIDE DEF new, a
    <3>0. PICK s : s = LastMock.serial
      OBVIOUS
    <3>3. PICK n \in Name :
            StringAt(new, a) = <<Slash>> \o n /\ Named(s, n) /\ mock'[p] = s
      BY <3>0, <3>1, <3>2
    <3>4. StringAt(memory[space[p]], registers[p].rdi)' = <<Slash>> \o n
      BY <3>2, <3>3 DEF StringAt
    <3>5. Named(mock[p], n)'
      BY <2>1, <3>3 DEF Named, fileVars
    <3> QED BY <2>4, <3>4, <3>5 DEF PathIs
  <2> QED BY <2>3, <2>4
<1>10. ASSUME NEW p \in Process, HandleExecveEnter(p) \/ PeekFails(p) \/ GetcwdFails(p) PROVE Goal
  BY <1>1, <1>10 DEF HandleExecveEnter, PeekFails, GetcwdFails, MemoryFails, processVars
<1>11. ASSUME FilesStep \/ UNCHANGED vars PROVE Goal
  BY <1>1, <1>11 DEF FilesStep, vars, processVars
<1> HIDE DEF Goal
<1>12. ASSUME NEW p \in Process, ProcessStep(p) PROVE Goal
  BY <1>3, <1>4, <1>5, <1>6, <1>7, <1>8, <1>9, <1>10, <1>12, Zenon DEF ProcessStep
<1>13. Goal
  BY <1>11, <1>12, SomeStep
<1> QED BY <1>13 DEF Goal

-----------------------------------------------------------------------------
(***************************************************************************)
(* The theorems about the mock executables.                                *)
(***************************************************************************)
\* The invariant holds in the beginning
LEMMA IInvInit == Init => IInv
<1> SUFFICES ASSUME Init PROVE IInv
  OBVIOUS
<1> USE DEF Init
<1>1. FilesInv
  BY FilesInvInit
<1>2. ProcessesTyped
  BY MockExecutablesAssumption DEF ProcessesTyped, ProcessState
<1>3. RegistersTyped
  BY DEF RegistersTyped, CalledWith
<1>4. Shared
  BY DEF Shared
<1>5. CallbackWaits
  BY DEF CallbackWaits
<1>6. PathWritten
  BY DEF PathWritten
<1>7. MemoryKept
  <2>1. \A s \in Process : memory[s] = Image
    OBVIOUS
  <2> QED BY <2>1, ImageKept DEF MemoryKept
<1> QED BY <1>1, <1>2, <1>3, <1>4, <1>5, <1>6, <1>7 DEF IInv

\* and is kept by every step.
LEMMA IInvNext == IInv /\ [Next]_vars => IInv'
<1> SUFFICES ASSUME IInv, [Next]_vars PROVE IInv'
  OBVIOUS
<1>1. FilesInv'
  BY FilesInvNext, StepsMoveFiles DEF IInv
<1>2. MemoryKept'
  BY MemoryNext
<1> QED BY <1>1, <1>2, ProcessesTypedNext, RegistersNext, SharedNext, CallbackNext, PathNext
        DEF IInv

\* The inductive invariant.
THEOREM MocksInvariant == Spec => []IInv
BY IInvInit, IInvNext, PTL DEF Spec

\* The variables keep their types, for any number of processes and memories of any size.
THEOREM MocksTypeCorrect == Spec => []TypeOK
<1>1. IInv => TypeOK
  BY DEF IInv, FilesInv, FilesTyped, ProcessesTyped, TypeOK
<1> QED BY <1>1, MocksInvariant, PTL

\* What a continued process is about to execute is the mock made for its command.
THEOREM MocksAreStarted == Spec => []OwnMockIsStarted
<1>1. IInv => OwnMockIsStarted
  <2> SUFFICES ASSUME IInv, NEW p \in Process, pstate[p] = "kernel", ~MockIsGone(p)
               PROVE  FileToExecute(p) = [owner |-> Mine, serial |-> mock[p], written |-> TRUE]
    BY DEF OwnMockIsStarted
  <2> DEFINE te == temporary_executables[Mine]
             path == StringAt(memory[space[p]], registers[p].rdi)
  <2>1. PICK n \in Name : PathIs(p, n)
    BY DEF IInv, PathWritten
  <2>2. PICK i \in DOMAIN te : te[i].serial = mock[p] /\ te[i].name \notin cleaned
    BY DEF MockIsGone
  <2>3. te[i].name = n
    BY <2>1, <2>2 DEF PathIs, Named
  <2>4. files[n] = [owner |-> Mine, serial |-> mock[p], written |-> TRUE]
    BY <2>2, <2>3, MockExecutablesAssumption DEF IInv, FilesInv, Owned, MockIsOwn
  <2>5. path = <<Slash>> \o n /\ Tail(path) = n
    BY <2>1, PathText DEF PathIs
  <2>6. FileToExecute(p) = files[n]
    BY <2>5 DEF FileToExecute
  <2> QED BY <2>4, <2>6
<1> QED BY <1>1, MocksInvariant, PTL

\* The mock is told of the command and arguments that the program has in its image.
THEOREM CommandsAreSeen == Spec => []CommandIsSeen
<1>1. IInv => CommandIsSeen
  <2> SUFFICES ASSUME IInv, NEW p \in Process, pstate[p] = "enter", space[p] \notin tainted,
                      NEW command, command = PeekCommand(p)
               PROVE  IF CommandFails(command) THEN NearTheEnd(registers[p])
                      ELSE command = Meant(registers[p])
    BY DEF CommandIsSeen
  <2> DEFINE mem == memory[space[p]]
             r == registers[p]
  <2>1. Kept(mem)
    BY DEF IInv, MemoryKept, ProcessesTyped
  <2>2. PICK c \in Call : r = [rdi |-> c.path, rsi |-> c.argv]
    BY DEF IInv, RegistersTyped, CalledWith
  <2>3. command = <<PeekString(mem, r.rdi), PeekStringArray(mem, r.rsi)>>
    BY DEF PeekCommand
  <2> HIDE DEF mem
  <2> QED BY <2>1, <2>2, <2>3, CommandIsRead
<1> QED BY <1>1, MocksInvariant, PTL

\* The callbacks of getcwd and stat write the answer where it is read, and nothing else.
THEOREM AnswersWritten == Spec => AnswersAreWritten
<1>1. IInv /\ [Next]_vars => [AnswersFit]_vars
  <2> SUFFICES ASSUME IInv, [Next]_vars, NEW p \in Process
               PROVE  LET mem == memory[space[p]] changed == memory'[space[p]] r == registers[p] IN
                      /\ pstate[p] = "getcwd" /\ pstate'[p] = "user" =>
                          /\ StringAt(changed, r.rdi) = MockCwd
                          /\ Len(MockCwd) < r.rsi
                          /\ OnlyChanges(mem, changed, r.rdi, r.rdi + RoundedUp(r.rsi) - 1)
                      /\ pstate[p] = "stat" /\ pstate'[p] = "user" =>
                          /\ HalfWord(changed, r.rsi) = Bytes(MockMode, Word \div 2)
                          /\ OnlyChanges(mem, changed, r.rsi, r.rsi + (Word \div 2) - 1)
    BY DEF AnswersFit
  <2>0. /\ pstate \in [Process -> ProcessState] /\ space \in [Process -> Process]
        /\ memory \in [Process -> Memory]
    BY DEF IInv, ProcessesTyped
  <2>1. ASSUME pstate[p] \in {"getcwd", "stat"}, pstate'[p] = "user"
        PROVE  HandleGetcwdExit(p) \/ HandleStatExit(p)
    <3> DEFINE Goal == HandleGetcwdExit(p) \/ HandleStatExit(p)
    <3>1. ASSUME NEW q \in Process,
                 \/ \E c \in Process : Fork(q, c) \/ Vfork(q, c)
                 \/ \E c \in Call : Execve(q, c)
                 \/ \E b \in Buffer : Getcwd(q, b)
                 \/ \E a \in StatBuffer : Stat(q, a)
                 \/ HandleExecveEnter(q) \/ PeekFails(q) \/ GetcwdFails(q)
          PROVE  Goal
      BY <2>0, <2>1, <3>1 DEF Fork, Vfork, Execve, Getcwd, Stat, HandleExecveEnter, PeekFails,
            GetcwdFails, MemoryFails, processVars, Runs
    <3>2. ASSUME NEW q \in Process, KernelExecve(q) PROVE Goal
      BY <2>0, <2>1, <3>2 DEF KernelExecve, Leaves
    <3>3. ASSUME NEW q \in Process, PokePath(q) PROVE Goal
      BY <2>0, <2>1, <3>3 DEF PokePath
    <3>4. ASSUME NEW q \in Process, HandleGetcwdExit(q) \/ HandleStatExit(q) PROVE Goal
      <4>1. q = p
        BY <2>0, <2>1, <3>4 DEF HandleGetcwdExit, HandleStatExit
      <4> QED BY <3>4, <4>1
    <3>5. ASSUME FilesStep \/ UNCHANGED vars PROVE Goal
      BY <2>1, <3>5 DEF FilesStep, vars, processVars
    <3> HIDE DEF Goal
    <3>6. ASSUME NEW q \in Process, ProcessStep(q) PROVE Goal
      BY <3>1, <3>2, <3>3, <3>4, <3>6, Zenon DEF ProcessStep
    <3>7. Goal
      BY <3>5, <3>6, SomeStep
    <3> QED BY <3>7 DEF Goal
  <2>2. ASSUME HandleGetcwdExit(p)
        PROVE  /\ pstate[p] = "getcwd"
               /\ memory'[space[p]] = PokeString(memory[space[p]], registers[p].rdi, MockCwd)
    BY <2>0, <2>2 DEF HandleGetcwdExit
  <2>3. ASSUME HandleStatExit(p)
        PROVE  /\ pstate[p] = "stat"
               /\ memory'[space[p]] = PokeFourBytes(memory[space[p]], registers[p].rsi, MockMode)
    BY <2>0, <2>3 DEF HandleStatExit
  <2>4. CASE HandleGetcwdExit(p)
    BY <2>2, <2>4, CwdPoked
  <2>5. CASE HandleStatExit(p)
    BY <2>3, <2>5, ModePoked
  <2>6. CASE ~HandleGetcwdExit(p) /\ ~HandleStatExit(p)
    BY <2>1, <2>6
  <2> QED BY <2>4, <2>5, <2>6
<1> QED BY <1>1, MocksInvariant, PTL DEF Spec, AnswersAreWritten

\* The same of the directory, while a script runs that shares it: mocks are not overwritten,
THEOREM ScriptMocksAreOwned == Spec => []MockIsOwn
BY MocksInvariant, PTL DEF IInv, FilesInv, Owned

\* giving up means that all names were tried,
THEOREM ScriptRunsOutTruly == Spec => []RanOutMeansFull
BY MocksInvariant, PTL DEF IInv, FilesInv

\* and foreign files are left alone.
THEOREM ScriptKeepsForeignFiles == Spec => ForeignFilesKept
<1>1. IInv /\ [Next]_vars => [KeepsForeignFiles]_fileVars
  <2> SUFFICES ASSUME IInv, [Next]_vars PROVE [KeepsForeignFiles]_fileVars
    OBVIOUS
  <2>1. CASE [FilesNext]_fileVars
    BY <2>1, ForeignKept DEF IInv, FilesInv
  <2>2. CASE Fails(Mine, "io")
    BY <2>2, FailsKeeps, MockExecutablesAssumption DEF IInv
  <2> QED BY <2>1, <2>2, StepsMoveFiles DEF FilesMove
<1> QED BY <1>1, MocksInvariant, PTL DEF Spec, ForeignFilesKept
=============================================================================
