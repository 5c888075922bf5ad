------------------------------ MODULE TiersInv ------------------------------
(***************************************************************************)
(* The inductive invariant of the tiers.                                   *)
(*                                                                         *)
(*  Books   of a prefix store, for what the rows own of its blocks: no     *)
(*          text is stored twice, the host holds snapshots of demoted      *)
(*          entries only and of none twice, bytes and counts are right     *)
(*  Rows    what a request's row looks like where it is                    *)
(*  Queue   waiting has the requests that wait, each once                  *)
(*  Files   a save writes a state where a state is read                    *)
(*                                                                         *)
(* and, where no prompt of whole pages is booted, what it all holds:       *)
(*                                                                         *)
(*  Served    the rows and the store have the K/V and the states of their  *)
(*            texts, under the weights of today                            *)
(*  Apart     the blocks a row has yet to write are nobody else's          *)
(*  Prefilled what is on disk, or on its way there, is what a prefill of   *)
(*            its key computes, and every row that may be saved is whole   *)
(***************************************************************************)
EXTENDS Tiers

Page == {Reply} \cup UNION {Range(Prompt[r]) : r \in Request}
History == Seq(Page \X Nat)

-----------------------------------------------------------------------------
(* The store *)

Entry == [text : Seq(Page), blocks : Seq(Block), state : History, demoted : BOOLEAN]
Held == [text : Seq(Page), state : History]
StoreType ==
  [entries : Seq(Entry), used : Int, held : Seq(Held), heldBytes : Int, ref : [Block -> Int]]

\* Each text once, with a block for each of its pages.
EntriesRight(es) ==
  /\ IsInjective(es) /\ \A e, f \in Range(es) : e.text = f.text => e = f
  /\ \A e \in Range(es) : Len(e.blocks) = Len(e.text) /\ IsInjective(e.blocks)

\* What the host holds is the snapshots of demoted entries, each once.
HeldRight(es, hs) ==
  /\ IsInjective(hs) /\ \A h, g \in Range(hs) : h.text = g.text => h = g
  /\ \A h \in Range(hs) : \E e \in Range(es) : e.demoted /\ e.text = h.text

onCard(es) == {e \in Range(es) : ~ e.demoted}
entriesWith(es, b) == {e \in Range(es) : b \in Range(e.blocks)}

\* A store whose blocks b have own[b] holders besides its entries.
Books(c, own) ==
  /\ c \in StoreType
  /\ EntriesRight(c.entries) /\ HeldRight(c.entries, c.held)
  /\ c.used = Cardinality(onCard(c.entries))
  /\ c.heldBytes = Len(c.held) /\ Len(c.held) <= DramBytes
  /\ \A b \in Block : c.ref[b] = own[b] + Cardinality(entriesWith(c.entries, b))

-----------------------------------------------------------------------------
(* The rows *)

RowType ==
  [phase : {"new", "waiting", "prefill", "decode", "gone"}, text : Seq(Page), blocks : Seq(Block),
   from : Nat, state : History, booted : BOOLEAN, saved : BOOLEAN, interior : BOOLEAN,
   pending : [len : Nat, state : History], entry : Nat]

RowRight(r, rw) ==
  /\ rw.text # <<>> /\ rw.from <= Len(rw.text) /\ rw.pending.len <= Len(rw.text)
  /\ IF rw.phase \in {"prefill", "decode"}
     THEN Len(rw.blocks) = Len(rw.text) /\ IsInjective(rw.blocks)
     ELSE rw = [newRow(r) EXCEPT !.phase = rw.phase]

Rows == row \in [Request -> RowType] /\ \A r \in Request : RowRight(r, row[r])
Queue ==
  /\ waiting \in Seq(Request) /\ IsInjective(waiting)
  /\ Range(waiting) = {r \in Request : row[r].phase = "waiting"}

\* The rows that hold a block, and how many they are.
ownersOf(rw, b) == {r \in Request : rw[r].phase \in {"prefill", "decode"} /\ b \in Range(rw[r].blocks)}
ownedIn(rw) == [b \in Block |-> Cardinality(ownersOf(rw, b))]

-----------------------------------------------------------------------------
(* The disk, and all of it *)

Lefts == {<<"aux", "k", "v", "manifest">>, <<"k", "v", "manifest">>, <<"v", "manifest">>, <<"manifest">>}

Files ==
  /\ disk = [key \in Key |-> [f \in File |-> disk[key][f]]]
  /\ \A key \in Key : disk[key]["aux"] \in History \cup {Missing, Rotten}
  /\ saving # NoSave =>
       /\ saving.key \in Key /\ saving.left \in Lefts /\ saving.files.aux \in History
       /\ saving = [key |-> saving.key, left |-> saving.left,
                    files |-> [aux |-> saving.files.aux, k |-> saving.files.k, v |-> saving.files.v,
                               manifest |-> saving.files.manifest]]

Counted == process \in 1 .. LastProcess /\ weights \in 0 .. MaxUpdates /\ rotted \in 0 .. MaxRot

TInv == Counted /\ Rows /\ Queue /\ Books(cache, ownedIn(row)) /\ Files

-----------------------------------------------------------------------------
(* Contents *)

\* The history of the first n pages of a text, under the weights w.
at(text, n, w) == [i \in 1 .. n |-> <<text[i], w>>]

\* What the first n blocks of a text hold, where cl is what the blocks hold.
pagesRight(text, blocks, n, cl, w) == \A i \in 1 .. n : cl[blocks[i]] = at(text, i, w)

StoreServes(c, cl, w) ==
  /\ \A e \in Range(c.entries) :
       /\ pagesRight(e.text, e.blocks, Len(e.text), cl, w)
       /\ e.demoted \/ e.state = at(e.text, Len(e.text), w)
  /\ \A h \in Range(c.held) : h.state = at(h.text, Len(h.text), w)

\* A row that runs, and the snapshot it holds for the end of its prompt.
RowServes(rw, cl, w) ==
  /\ rw.state = at(rw.text, rw.from, w) /\ pagesRight(rw.text, rw.blocks, rw.from, cl, w)
  /\ rw.pending.len <= rw.from /\ rw.pending.state = at(rw.text, rw.pending.len, w)
  /\ rw.phase = "decode" => rw.from = Len(rw.text)

Served ==
  /\ StoreServes(cache, cell, weights)
  /\ \A r \in Request : inEngine(r) => RowServes(row[r], cell, weights)

\* The blocks a row has yet to write.
openOf(rw) == {rw.blocks[i] : i \in rw.from + 1 .. Len(rw.blocks)}

Apart ==
  \A r \in running :
    /\ \A q \in running \ {r} : openOf(row[r]) \cap Range(row[q].blocks) = {}
    /\ \A e \in Range(cache.entries) : openOf(row[r]) \cap Range(e.blocks) = {}

\* What a prefill of a key computes for each file of its directory, before any update.
kvOf(key) == [i \in DOMAIN key |-> at(key, i, 0)]
prefilled(key, f) == IF f = "aux" THEN at(key, Len(key), 0) ELSE kvOf(key)

Prefilled ==
  /\ \A key \in Key, f \in File : disk[key][f] \in {Missing, Rotten, prefilled(key, f)}
  /\ saving # NoSave => \A f \in File : saving.files[f] = prefilled(saving.key, f)
  /\ process \in Booting => weights = 0
  /\ \A r \in Saves \cap Request : ~ragged(row[r].text)

Contents == Served /\ Apart /\ Prefilled

-----------------------------------------------------------------------------
(* What the contents rest on *)

\* No row is saved that is not whole, whatever it generates: what save_boot keeps of one
\* that is not has its whole pages for a key and a state that has consumed more.
SavesWholePages == Reply \notin Tails /\ \A r \in Saves \cap Request : ~ragged(Prompt[r])

\* A prompt of whole pages starts from disk: its last page will be forwarded again, on a
\* state that has consumed it.
WholeBoot == AdmitBoots /\ wholePages(row[Head(waiting)].text) = row[Head(waiting)].text

\* Kv and State are what a prefill of the key computes.
KeysPrefilled == \A key \in Key : Kv[key] = kvOf(key) /\ State[key] = at(key, Len(key), 0)

-----------------------------------------------------------------------------
(* How a store comes from another *)

\* The card or the host has s as the snapshot of a text.
snapshotIn(c, text, s) ==
  \/ \E e \in Range(c.entries) : ~ e.demoted /\ e.text = text /\ e.state = s
  \/ \E h \in Range(c.held) : h.text = text /\ h.state = s

\* d has no entry and no snapshot that c has not, wherever the snapshots are.
From(d, c) ==
  /\ \A e \in Range(d.entries) :
       /\ \E f \in Range(c.entries) : f.text = e.text /\ f.blocks = e.blocks
       /\ e.demoted \/ snapshotIn(c, e.text, e.state)
  /\ \A h \in Range(d.held) : snapshotIn(c, h.text, h.state)
=============================================================================
