----------------------------- MODULE FileStore ------------------------------
(***************************************************************************)
(* What the file system promises the shell: a tree of directories that     *)
(* hold files under a name and extension.  A call either takes effect as a *)
(* whole or not at all, and touches nothing but the entry it names.        *)
(* There is no disk, no cache and no crash here.                           *)
(***************************************************************************)
CONSTANTS
    Root,          \* the root directory
    DirectoryIds,  \* identities a new directory may get
    Names, Exts,
    Contents       \* what a file can hold

VARIABLE store     \* the set of live entries

File == [parent : DirectoryIds \cup {Root}, name : Names, ext : Exts,
         id : {Root}, contents : Contents]
Directory == [parent : DirectoryIds \cup {Root}, name : Names, ext : Exts,
              id : DirectoryIds, contents : {<<>>}]

\* id = Root marks an entry that is not a directory: the root has no entry.
IsDirectory(e) == e.id # Root
DirectoriesOf(s) == {Root} \cup {e.id : e \in {f \in s : IsDirectory(f)}}

StoreInit == store = {}

\* A file comes under a name and extension its directory does not hold yet.  Of a
\* directory no more is promised than that it is new.
Add == \E e \in store' \ store :
    /\ e \in File \cup Directory
    /\ e.parent \in DirectoriesOf(store)
    /\ IsDirectory(e) => e.id \notin DirectoriesOf(store)
    /\ ~IsDirectory(e) =>
           \A f \in store : f.parent = e.parent => <<f.name, f.ext>> # <<e.name, e.ext>>
    /\ store' = store \cup {e}

\* A file, or a directory nothing lives in.
Remove == \E e \in store \ store' :
    /\ IsDirectory(e) => \A f \in store : f.parent # e.id
    /\ store' = store \ {e}

StoreNext == Add \/ Remove

StoreSpec == StoreInit /\ [][StoreNext]_store
=============================================================================
