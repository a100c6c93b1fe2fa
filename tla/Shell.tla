------------------------------- MODULE Shell --------------------------------
(***************************************************************************)
(* The file commands of the shell, from the path that was typed to the     *)
(* writes on the disk: cd, mkdir, rm, cat, exec, cp, mv and find on top of  *)
(* the driver of Fat32, the power failing at any moment.                    *)
(*                                                                         *)
(* A command decides from what it reads and then waits for its write, so   *)
(* every step between two writes of cp is one action; calls is the stack   *)
(* of what cp and mv still have to do, the innermost first.  A path is its *)
(* words, and a word stands for a name without extension.                  *)
(***************************************************************************)
EXTENDS Fat32

CONSTANTS
    ShellDriver,   \* the shell's copy of the driver
    Paths,         \* what the user types
    CopySize,      \* clusters of the buffer of cp and cat
    CarefulUser,   \* TRUE: the user keeps off what Careful... rules out
    Images,        \* runs of the inserter before the machine is booted
    MaxCommands    \* bound on commands

Words == Names \cup {DotDot}

\* A run of the inserter: a file's buffer is its clusters of data, a directory's
\* what the buffer of its table held.
IsInsertion(r) ==
    /\ r.parent \in Clusters /\ r.name \in Names /\ r.size \in 0 .. MaxSize
    /\ r.buf \in IF r.size = 0 THEN Exts ELSE [1 .. r.size -> Values \X Nat]

ASSUME ShellConstants ==
    /\ ShellDriver \in UserDrivers
    /\ Paths \subseteq [absolute : BOOLEAN, words : Seq(Words) \ {<<>>}]
    /\ CopySize \in 1 .. MaxSize
    /\ \A image \in Images : image \in Seq(Range(image)) /\ \A r \in Range(image) : IsInsertion(r)
    /\ MaxCommands \in Nat
    /\ CarefulUser \in BOOLEAN

VARIABLES
    currentDirectory,
    calls,       \* calls of cpHelper, mkfile and rm that have not returned
    job,         \* the command in progress
    inserts,     \* what is still to be inserted into the image
    commands     \* commands typed so far

shellVars == <<currentDirectory, calls, job, inserts, commands>>
vars == <<fatVars, shellVars>>

Root == ROOT_CLUSTER_NUMBER
NoJob == [name |-> "none", copies |-> {}]

-----------------------------------------------------------------------------
(* Walking.                                                                 *)

\* The first live entry of that name, the directory itself and ".." included.
findDirEntryIndex(c, name) ==
    LET found == {i \in Slots : disk.table[c][i].live /\ disk.table[c][i].name = name}
    IN  IF found = {} THEN -1 ELSE Min(found)

\* Mutant: a file is entered like a directory.
EnterFile(w, name) ==
    LET i == findDirEntryIndex(w.dir, name) IN
    IF w.code # 0 \/ i = -1 THEN [w EXCEPT !.code = 2]
    ELSE [w EXCEPT !.dir = disk.table[w.dir][i].cluster]

\* One word of a path: w is the return code so far and the directory whose table
\* was loaded last.
Enter(w, name) ==
    LET i == findDirEntryIndex(w.dir, name) IN
    CASE w.code # 0 -> w
      [] w.code = 0 /\ i = -1 -> [w EXCEPT !.code = 2]
      [] w.code = 0 /\ i # -1 ->
             IF disk.table[w.dir][i].dir
             THEN [w EXCEPT !.dir = disk.table[w.dir][i].cluster]
             ELSE [w EXCEPT !.code = 3]

\* The first n words of a path.
Walk(from, path, n) ==
    LET at[k \in 0 .. Len(path.words)] ==
            IF k = 0 THEN [code |-> 0, dir |-> IF path.absolute THEN Root ELSE from]
            ELSE Enter(at[k-1], path.words[k])
    IN  at[n]

\* With code 0 the directory is the new current one, otherwise the shell stays
\* where it was.
cd(from, path, isdir) ==
    Walk(from, path, IF isdir THEN Len(path.words) ELSE Len(path.words) - 1)

\* The directories met going up from c.
Upwards(c) ==
    LET up[k \in 0 .. ClusterMapSize] ==
            IF k = 0 THEN c ELSE disk.table[up[k-1]][1].cluster
    IN  up

\* The k-th of them from the current one.
Up(k) == Upwards(currentDirectory)[k]

Ascents == {k \in 0 .. ClusterMapSize : Up(k) = Root}

\* The prompt loads the tables on the way up and ends at the root.
printDir == Ascents # {}

\* dirTable after the prompt: the last directory below the root.
Listed == IF Min(Ascents) = 0 THEN Root ELSE Up(Min(Ascents) - 1)

\* The directories met walking down from directory c, with the path to each.
Walks(c) ==
    LET step(walks) ==
            UNION {{[dir |-> e.cluster, path |-> Append(w.path, e.name)] :
                       e \in {f \in LiveEntries(disk, w.dir) : f.dir}} : w \in walks}
        level[k \in 0 .. DirectoryMax] ==
            IF k = 0 THEN {[dir |-> c, path |-> <<>>]} ELSE step(level[k-1])
    IN  UNION Range(level)

\* parseExt takes ".." for two empty words.
BaseName(word) == IF word = DotDot THEN NoName ELSE word

append(path, name) == [path EXCEPT !.words = Append(@, name)]

-----------------------------------------------------------------------------
(* What the calls of cp and mv still do.                                    *)

Helper(src, dst) == [call |-> "cpHelper", src |-> src, dst |-> dst]
Loop(src, dst, dir, slot) ==
    [call |-> "loop", src |-> src, dst |-> dst, dir |-> dir, slot |-> slot]
Mkfile(from, dst, isdir, data) ==
    [call |-> "mkfile", from |-> from, dst |-> dst, isdir |-> isdir, data |-> data]
Rm(path) == [call |-> "rm", path |-> path]

mkdir(path) ==
    LET w == cd(currentDirectory, path, FALSE) IN
    IF w.code # 0 THEN UNCHANGED fatVars
    ELSE \E ext, junk \in Exts : write(ShellDriver, w.dir, Last(path.words), ext, 0, junk)

\* The extension of the request is never set.
rm(path) ==
    LET w == cd(currentDirectory, path, FALSE) IN
    IF w.code # 0 THEN UNCHANGED fatVars
    ELSE \E ext \in Exts : delete(ShellDriver, w.dir, Last(path.words), ext)

\* What cp's buffer holds after the read whose return code it does not look at;
\* the directory read from is the root, wherever the source is.
Buffer(name) ==
    LET r == ReadResult(Root, name, NoExt, CopySize)
    IN  [k \in 1 .. CopySize |->
            IF r.code = 0 /\ k <= Len(r.data) THEN r.data[k] ELSE NoData]

\* A source that is no directory: a file of that name in the directory where
\* the walk stopped.  The target is looked up from there as well.
CopyFile(f, rest) ==
    LET w == cd(currentDirectory, f.src, FALSE)
        from == IF w.code = 0 THEN w.dir ELSE currentDirectory
    IN  IF \E i \in UserSlots : LET e == disk.table[w.dir][i] IN
               e.live /\ ~e.dir /\ e.ext = NoExt /\ e.name = Last(f.src.words)
        THEN /\ read(KernelDriver, Root)
             /\ calls' = <<Mkfile(from, f.dst, cd(from, f.dst, TRUE).code = 0,
                                  Buffer(BaseName(Last(f.src.words))))>> \o rest
        ELSE calls' = rest /\ UNCHANGED fatVars

cpHelper(f, rest) ==
    LET w == cd(currentDirectory, f.src, TRUE) IN
    \/ /\ w.code = 0
       /\ calls' = <<Loop(f.src, f.dst, w.dir, 2)>> \o rest
       /\ UNCHANGED fatVars
    \/ w.code = 3 /\ CopyFile(f, rest)
    \/ w.code = 2 /\ calls' = rest /\ UNCHANGED fatVars

\* One entry of a source directory, rest is what remains to be done after it.
\* Every file is written under the last word of the target.
CopyEntry(f, e, rest) ==
    IF e.dir
    THEN /\ calls' = <<Helper(append(f.src, e.name), append(f.dst, e.name))>> \o rest
         /\ mkdir(append(f.dst, e.name))
    ELSE /\ calls' = <<Mkfile(currentDirectory, f.dst, TRUE, Buffer(e.name))>> \o rest
         /\ read(KernelDriver, Root)

\* Directories and files without extension, from the slot the loop is at.
Due(f) ==
    {i \in UserSlots : LET e == disk.table[f.dir][i]
                       IN  i >= f.slot /\ e.live /\ (e.dir \/ e.ext = NoExt)}

\* Mutant: the loop does not return to its own directory.
CopyElsewhere(f, rest) ==
    IF Due(f) = {} THEN calls' = rest /\ UNCHANGED fatVars
    ELSE CopyEntry(f, disk.table[f.dir][Min(Due(f))],
                   <<Loop(f.src, f.dst, currentDirectory, Min(Due(f)) + 1)>> \o rest)

\* Mutant: the loop does not go on to the next entry.
CopySameEntry(f, rest) ==
    IF Due(f) = {} THEN calls' = rest /\ UNCHANGED fatVars
    ELSE CopyEntry(f, disk.table[f.dir][Min(Due(f))], <<f>> \o rest)

CopyEntries(f, rest) ==
    IF Due(f) = {} THEN calls' = rest /\ UNCHANGED fatVars
    ELSE CopyEntry(f, disk.table[f.dir][Min(Due(f))],
                   <<Loop(f.src, f.dst, f.dir, Min(Due(f)) + 1)>> \o rest)

\* With isdir the file gets the name of the directory it is written into.
mkfile(f) ==
    LET w == cd(f.from, f.dst, f.isdir) IN
    IF w.code # 0 THEN UNCHANGED fatVars
    ELSE /\ RoomChecked => EnoughRoom(CopySize)
         /\ write(ShellDriver, w.dir, Last(f.dst.words), NoExt, CopySize, f.data)

Call ==
    /\ Idle /\ calls # <<>>
    /\ LET f == Head(calls) IN
       \/ f.call = "cpHelper" /\ cpHelper(f, Tail(calls))
       \/ f.call = "loop" /\ CopyEntries(f, Tail(calls))
       \/ f.call = "mkfile" /\ mkfile(f) /\ calls' = Tail(calls)
       \/ f.call = "rm" /\ rm(f.path) /\ calls' = Tail(calls)
    /\ UNCHANGED <<currentDirectory, job, inserts, commands>>

-----------------------------------------------------------------------------
(* Commands, typed at a prompt.                                             *)

Type(name, copies) ==
    /\ Idle /\ job = NoJob /\ printDir
    /\ commands < MaxCommands
    /\ commands' = commands + 1
    /\ job' = [name |-> name, copies |-> copies]
    /\ UNCHANGED inserts

\* The walk never takes an entry of that name for the directory it is in: entry 0
\* carries the directory's own name and leads nowhere.
CarefulPath(path) ==
    \A n \in 1 .. Len(path.words) :
        LET w == Walk(currentDirectory, path, n - 1)
        IN  w.code = 0 => path.words[n] # disk.table[w.dir][0].name

\* Not "..", not the current directory, nothing with entries.
CarefulRm(path) ==
    LET w == cd(currentDirectory, path, FALSE) IN
    w.code = 0 => \A i \in Slots \ {0} :
        LET e == disk.table[w.dir][i] IN
        e.live /\ e.dir /\ e.name = Last(path.words) =>
            i # 1 /\ IsEmptyDirectory(e.cluster) /\ e.cluster # currentDirectory

\* Not "..", and no directory below the source.
CarefulTarget(src, dst) ==
    LET s == cd(currentDirectory, src, TRUE)
        w == cd(currentDirectory, dst, FALSE)
    IN  /\ Last(dst.words) \in Names
        /\ w.code = 0 /\ s.code = 0 => s.dir \notin Range(Upwards(w.dir))

CdCommand == \E path \in Paths :
    LET w == cd(currentDirectory, path, TRUE) IN
    /\ Type("cd", {})
    /\ CarefulUser => CarefulPath(path)
    /\ currentDirectory' = IF w.code = 0 THEN w.dir ELSE currentDirectory
    /\ UNCHANGED <<fatVars, calls>>

MkdirCommand == \E path \in Paths :
    /\ Type("mkdir", {})
    /\ CarefulUser => CarefulPath(path) /\ Last(path.words) \in Names
    /\ mkdir(path)
    /\ UNCHANGED <<currentDirectory, calls>>

RmCommand == \E path \in Paths :
    /\ Type("rm", {})
    /\ FreshDelete => cache[ShellDriver] # ZeroFat
    /\ CarefulUser => CarefulRm(path)
    /\ rm(path)
    /\ UNCHANGED <<currentDirectory, calls>>

\* cat reads with the shell's copy of the driver, exec with the kernel's.  Not
\* finding the file they return early and leave the shell in its directory.
OpenCommand == \E path \in Paths, d \in {ShellDriver, KernelDriver} :
    LET w == cd(currentDirectory, path, FALSE)
        i == findDirEntryIndex(w.dir, BaseName(Last(path.words)))
    IN  /\ Type(IF d = ShellDriver THEN "cat" ELSE "exec", {})
        /\ CarefulUser => CarefulPath(path)
        /\ IF w.code = 0 /\ i # -1 /\ ~disk.table[w.dir][i].dir
           THEN read(d, w.dir) ELSE UNCHANGED fatVars
        /\ currentDirectory' = IF w.code = 0 /\ i = -1 THEN w.dir ELSE currentDirectory
        /\ UNCHANGED calls

\* A source directory's target is made before the copy starts.
cp(src, dst, rest) ==
    /\ IF cd(currentDirectory, src, TRUE).code = 0 THEN mkdir(dst) ELSE UNCHANGED fatVars
    /\ calls' = <<Helper(src, dst)>> \o rest
    /\ UNCHANGED currentDirectory

\* A directory with room enough for its copy, no entry of it named like the
\* target, whose files will carry that name.
Fits(src, dst) ==
    LET s == cd(currentDirectory, src, TRUE)
        below == {v.dir : v \in Walks(s.dir)}
        holding == {c \in below : \E e \in LiveEntries(disk, c) : ~e.dir}
    IN  /\ s.code = 0
        /\ \A e \in LiveEntries(disk, s.dir) : e.name # Last(dst.words)
        /\ Cardinality(below) + CopySize * Cardinality(holding)
              <= Cardinality(FreeClusters(disk.fat))

\* A file of the root that fits the buffer and that read finds: the request's
\* extension is never set, and a deleted entry in front of it would be compared.
FitsBuffer(src) ==
    /\ cd(currentDirectory, src, TRUE).code = 3
    /\ cd(currentDirectory, src, FALSE) = [code |-> 0, dir |-> Root]
    /\ \A e \in LiveEntries(disk, Root) :
           ~e.dir /\ e.name = Last(src.words) => e.ext = NoExt /\ e.size <= CopySize
    /\ ReadResult(Root, Last(src.words), NoExt, CopySize).code = 0

\* A new name, which leads to the same place from the root.
NewTarget(dst) ==
    LET w == cd(currentDirectory, dst, FALSE) IN
    /\ w.code = 0 /\ findDirEntryIndex(w.dir, Last(dst.words)) = -1
    /\ WriteResult(w.dir, Last(dst.words), NoExt, CopySize) = 0
    /\ dst.absolute \/ currentDirectory = Root

\* The copies that must succeed.
Expected(src, dst) ==
    IF NewTarget(dst) /\ (Fits(src, dst) \/ FitsBuffer(src)) THEN {<<src, dst>>} ELSE {}

CpCommand == \E src, dst \in Paths :
    /\ Type("cp", Expected(src, dst))
    /\ CarefulUser => /\ CarefulPath(src) /\ CarefulPath(dst)
                      /\ CarefulTarget(src, dst)
    /\ cp(src, dst, <<>>)

\* Mutant: the source is removed first.
RemoveThenCopy(src, dst) ==
    /\ calls' = <<Rm(src), Helper(src, dst)>>
    /\ UNCHANGED <<fatVars, currentDirectory>>

\* Whether the copy succeeded is not looked at.
CopyThenRemove(src, dst) == cp(src, dst, <<Rm(src)>>)

\* The file is looked for in the table that the prompt left.
MvCommand == \E src, dst \in Paths :
    LET i == findDirEntryIndex(Listed, BaseName(Last(src.words)))
        found == i # -1 /\ ~disk.table[Listed][i].dir
    IN  /\ Type("mv", {})
        /\ CarefulUser /\ found => /\ currentDirectory = Root /\ FitsBuffer(src)
                                  /\ NewTarget(dst) /\ CarefulRm(src)
        /\ IF found THEN CopyThenRemove(src, dst)
           ELSE UNCHANGED <<fatVars, currentDirectory, calls>>

\* Back in the loop of main.
Return ==
    /\ Idle /\ job # NoJob /\ calls = <<>>
    /\ job' = NoJob
    /\ UNCHANGED <<fatVars, currentDirectory, calls, inserts, commands>>

-----------------------------------------------------------------------------
(* The machine.                                                             *)

\* One run of the inserter on the image, before it is booted; a file that does not
\* exist outside makes a directory.
Insert ==
    /\ inserts # <<>>
    /\ inserts' = Tail(inserts)
    /\ LET r == Head(inserts) IN
       /\ RoomChecked => EnoughRoom(r.size)
       /\ disk' = IF WriteResult(r.parent, r.name, NoExt, r.size) # 0 THEN disk
                  ELSE Last(WriteDisks(r.parent, r.name, NoExt, r.size, r.buf))
    /\ UNCHANGED <<cache, pending, power, powerOffs, currentDirectory, calls, job, commands>>

Boot == inserts = <<>> /\ initialize_filesystem_fat32 /\ UNCHANGED shellVars
Write == DiskWrite /\ UNCHANGED shellVars

\* The next shell starts in the root.
Crash ==
    /\ PowerOff
    /\ currentDirectory' = Root
    /\ calls' = <<>>
    /\ job' = NoJob
    /\ UNCHANGED <<inserts, commands>>

\* The image is formatted by the first run of the inserter.
FormattedDisk ==
    [BlankDisk EXCEPT !.signed = TRUE, !.fat = FormattedFat,
        !.table[Root] = init_directory_table(RootName, Root, NoExt)]

Init ==
    /\ disk = FormattedDisk
    /\ cache = [d \in Drivers |-> ZeroFat]
    /\ pending = <<>>
    /\ power = "off"
    /\ powerOffs = 0
    /\ currentDirectory = Root
    /\ calls = <<>>
    /\ job = NoJob
    /\ inserts \in Images
    /\ commands = 0

Next == \/ Insert \/ Boot \/ Write \/ Crash
        \/ CdCommand \/ MkdirCommand \/ RmCommand \/ OpenCommand
        \/ CpCommand \/ MvCommand \/ Call \/ Return

\* A command in progress goes on: none of its steps waits for anything.  The last
\* conjunct is WF_vars(Call) with ENABLED written out, which is costly to compute
\* (the room of RoomChecked never lacks in part for a buffer of one cluster).
Fairness ==
    /\ WF_vars(Write) /\ WF_vars(Return)
    /\ []<>~(Idle /\ calls # <<>>) \/ []<><<Call>>_vars

Spec == Init /\ [][Next]_vars /\ Fairness

-----------------------------------------------------------------------------
(* Properties.                                                              *)

\* The prompt names a path that leads to the current directory: going up by ".."
\* the shell comes to the root, and every directory on the way is listed in the
\* next one under the name it carries itself.
PromptIsPath ==
    power = "on" =>
        /\ Ascents # {}
        /\ \A k \in 0 .. Min(Ascents) - 1 :
               \E e \in LiveEntries(disk, Up(k + 1)) :
                   e.dir /\ e.cluster = Up(k) /\ e.name = disk.table[Up(k)][0].name

\* No command but cd leaves the shell in another directory: the others put back the
\* one they started in.  (cat and exec do not when they find no file.)
OnlyCdMoves ==
    [][currentDirectory' # currentDirectory => job'.name = "cd" \/ power' = "off"]_vars

\* The data of live files.
StoredData ==
    UNION {Range(DataAlong(ChainOf(p))) : p \in {q \in Places : ~EntryAt(q).dir}}

\* No command but rm makes data disappear, power failures included: mv removes
\* the source when its copy is on the disk and never before.
OnlyRmLosesData == [][job.name # "rm" => StoredData \subseteq StoredData']_disk

\* A copy changes no entry there was, whatever names it meets on its way.
CopyOnlyAdds ==
    [][job.name = "cp" => {Stored(p) : p \in Places} \subseteq {Stored(p) : p \in Places}']_disk

PathsBelow(path) ==
    LET w == cd(currentDirectory, path, TRUE)
    IN  IF w.code = 0 THEN {v.path : v \in Walks(w.dir)} ELSE {}

\* What a path holds if it names a file, without the zeros after it.
FileData(path) ==
    LET w == cd(currentDirectory, path, FALSE)
        NotZero(data) == data # NoData
    IN  {SelectSeq(DataAlong(Chain(disk.fat, e.cluster)), NotZero) :
            e \in {f \in LiveEntries(disk, w.dir) : ~f.dir /\ f.name = Last(path.words)}}

\* When a copy has ended that had the room it takes, every directory below the
\* source is found below the target, and a file holds what the source holds.
CopyMirrors ==
    [][job' = NoJob /\ power' = "on" => \A pair \in job.copies :
          /\ PathsBelow(pair[1]) \subseteq PathsBelow(pair[2])
          /\ FileData(pair[1]) = FileData(pair[2])]_vars

\* The paths find prints: its walk down from the root.
findHelper(item) ==
    {Append(w.path, item) :
        w \in {v \in Walks(Root) : \E e \in LiveEntries(disk, v.dir) : e.name = item}}

\* The path the prompt would print in a directory.
PromptIn(c) ==
    LET up == Upwards(c)
        depth == Min({k \in 0 .. ClusterMapSize : up[k] = Root})
    IN  [k \in 1 .. depth |-> disk.table[up[depth - k]][0].name]

\* find, walking down the entries, prints the path that the prompt, walking up the
\* tables, shows in the directory of what was found; it misses nothing.
FindMatchesPrompt ==
    \A item \in Names :
        findHelper(item) = {Append(PromptIn(p[1]), item) :
                                p \in {q \in Places : EntryAt(q).name = item}}

\* Every command comes back to the prompt, unless the power goes.
CommandsEnd == (job # NoJob) ~> (job = NoJob)
=============================================================================
