----------------------------- MODULE BootStore -----------------------------
(***************************************************************************)
(* KvBootStore (kv_tiers.py): prefilled contexts on disk, one directory    *)
(* per key, from which a later process starts instead of prefilling.  A    *)
(* save writes its files next to the entry and then moves them into it,    *)
(* one rename at a time, the manifest last.  A process can die between two *)
(* moves, and what is on disk can be damaged later.                        *)
(***************************************************************************)
EXTENDS Naturals, Sequences

CONSTANTS
  Key,              \* the token sequences, whole pages, that contexts are saved for
  Kv, State,        \* what a prefill of a key computes: its pages' K/V, and the state
  Missing, Rotten,  \* what a file can be besides what a save wrote
  NoSave

ASSUME BootAssumption ==
  /\ Missing # Rotten
  /\ \A key \in Key : {Kv[key], State[key]} \cap {Missing, Rotten} = {}

VARIABLES
  disk,    \* the files of each key's directory
  saving   \* the save in progress: its key, its files, and those not moved yet

bootVars == <<disk, saving>>

File == {"aux", "k", "v", "manifest"}

\* exists: a manifest that parses and names these tokens.
exists(key) == disk[key].manifest \notin {Missing, Rotten}

\* boot: every page of K and V has the manifest's checksum, and torch.load reads aux.
loads(key) ==
  /\ exists(key)
  /\ disk[key].k = disk[key].manifest /\ disk[key].v = disk[key].manifest
  /\ disk[key].aux \notin {Missing, Rotten}

\* Mutant: the manifest goes first, so that a crash leaves an entry without its state.
moveOrderManifestFirst == <<"manifest", "k", "v", "aux">>

\* The moves of a save: sorted names, and the manifest after them.
moveOrder == <<"aux", "k", "v", "manifest">>

\* save: the files are complete before the first of them is moved.
SaveBegin(key, kv, state) ==
  /\ saving = NoSave
  /\ saving' = [key |-> key, left |-> moveOrder,
                files |-> [aux |-> state, k |-> kv, v |-> kv, manifest |-> kv]]
  /\ UNCHANGED disk

SaveMove ==
  /\ saving # NoSave
  /\ LET f == Head(saving.left)
     IN  disk' = [disk EXCEPT ![saving.key][f] = saving.files[f]]
  /\ saving' = IF Len(saving.left) = 1 THEN NoSave ELSE [saving EXCEPT !.left = Tail(@)]

\* The process dies; the files it had not moved are in a directory nobody reads.
SaveLost == saving' = NoSave /\ UNCHANGED disk

\* A file is truncated or damaged.
Rot(key, f) ==
  /\ disk[key][f] \notin {Missing, Rotten}
  /\ disk' = [disk EXCEPT ![key][f] = Rotten]
  /\ UNCHANGED saving

BootInit ==
  /\ disk = [key \in Key |-> [f \in File |-> Missing]]
  /\ saving = NoSave

BootNext ==
  \/ \E key \in Key : SaveBegin(key, Kv[key], State[key])
  \/ SaveMove \/ SaveLost
  \/ \E key \in Key, f \in File : Rot(key, f)

BootSpec == BootInit /\ [][BootNext]_bootVars

whole(key) ==
  /\ disk[key].k = Kv[key] /\ disk[key].v = Kv[key]
  /\ disk[key].aux = State[key]

\* Wherever the process that saved it died, an entry that exists has all its files, and
\* whatever has been damaged since, what boot accepts is the key's K, V and state.
BootWhole ==
  \A key \in Key :
    /\ loads(key) => whole(key)
    /\ exists(key) /\ (\A f \in File : disk[key][f] # Rotten) => loads(key)
=============================================================================
