------------------------- MODULE CheckpointJournal -------------------------
(* The tracker's flash journal (hardware/include/checkpoint_journal.h): an     *)
(* append-only ring of sealed records over pages that are erased whole. A      *)
(* record is the number of the sample it holds; a slot that was torn does not  *)
(* open and, as in the storage of the journal's own tests, refuses a second    *)
(* write until its page is erased. Generations are far below their 32 bits.    *)
EXTENDS Integers

CONSTANTS
    Pages,      \* pages of the partition
    PerPage,    \* records of a page
    Samples,    \* numbers of samples
    MaxGen      \* generations (bound)

ASSUME JournalAssumption == Pages \in Nat /\ Pages >= 2 /\ PerPage \in Nat \ {0} /\ MaxGen \in Nat /\ Samples \subseteq Nat

VARIABLES
    flash,      \* slot -> record, Blank or Torn: survives power loss
    journal,    \* the Journal object, in memory
    confirmed   \* the last record whose append returned true, or what a boot found

journalVars == <<flash, journal, confirmed>>

Slots == 0 .. Pages * PerPage - 1
PageOf(i) == i \div PerPage
NextSlot(i) == (i + 1) % (Pages * PerPage)
NextPage(i) == (i + PerPage) % (Pages * PerPage)

Blank == [gen |-> 0, sample |-> 0]
Torn == [gen |-> 0, sample |-> 1]
NoRecord == Blank
Opens(rec) == rec.gen > 0

Records == [gen : Nat, sample : Nat]
Journals == [ready : BOOLEAN, found : BOOLEAN, gen : Nat, write : Slots, latest : Slots]

JournalTypeOK ==
    /\ flash \in [Slots -> Records]
    /\ journal \in Journals
    /\ confirmed \in Records

\* initialize(): the newest record that opens is the latest one; a read error
\* turns the journal off.
Initialized(f, j) ==
    \/ j = [ready |-> FALSE, found |-> FALSE, gen |-> 0, write |-> 0, latest |-> 0]
    \/ /\ \A i \in Slots : ~Opens(f[i])
       /\ j = [ready |-> TRUE, found |-> FALSE, gen |-> 0, write |-> 0, latest |-> 0]
    \/ \E i \in Slots :
           /\ Opens(f[i]) /\ \A k \in Slots : f[k].gen <= f[i].gen
           /\ j = [ready |-> TRUE, found |-> TRUE, gen |-> f[i].gen, write |-> NextSlot(i), latest |-> i]

JournalInit ==
    /\ flash = [i \in Slots |-> Blank]
    /\ journal = [ready |-> TRUE, found |-> FALSE, gen |-> 0, write |-> 0, latest |-> 0]
    /\ confirmed = NoRecord

-----------------------------------------------------------------------------
\* Faulty: the page of the latest record may be erased.
NeverHoldsLatest == FALSE

\* The next slot starts the page that holds the latest record.
HoldsLatest == journal.found /\ PageOf(journal.write) = PageOf(journal.latest)

StartsPage == journal.write % PerPage = 0

\* A page as an erase leaves it: all of it, or the part the cut let it reach.
PageSlots(i) == {k \in Slots : PageOf(k) = PageOf(i)}
Erased(f, part) == [i \in Slots |-> IF i \in part THEN Blank ELSE f[i]]

\* append() without effect: not ready, or the codec cannot seal (radio off).
AppendRefused == UNCHANGED journalVars

\* append() gives up the page: it holds the latest record, or its erase failed.
SkipPage(part) ==
    /\ journal.ready /\ StartsPage
    /\ flash' = IF HoldsLatest THEN flash ELSE Erased(flash, part)
    /\ journal' = [journal EXCEPT !.write = NextPage(journal.write)]
    /\ UNCHANGED confirmed

\* append() reaches the write. The generation and the slot are spent whatever
\* comes of it: confirmed, refused, torn, or written in full but reported failed.
Write(sample, outcome) ==
    /\ journal.ready /\ journal.gen < MaxGen
    /\ StartsPage => ~HoldsLatest
    /\ LET i == journal.write
           f == IF StartsPage THEN Erased(flash, PageSlots(i)) ELSE flash
           rec == [gen |-> journal.gen + 1, sample |-> sample]
           spent == [journal EXCEPT !.gen = @ + 1, !.write = NextSlot(i)]
       IN  \/ /\ outcome = "failed"
              /\ flash' = [f EXCEPT ![i] = Torn]
              /\ journal' = spent
              /\ UNCHANGED confirmed
           \/ /\ outcome = "unknown" /\ f[i] = Blank
              /\ flash' = [f EXCEPT ![i] = rec]
              /\ journal' = spent
              /\ UNCHANGED confirmed
           \/ /\ outcome = "ok" /\ f[i] = Blank
              /\ flash' = [f EXCEPT ![i] = rec]
              /\ journal' = [spent EXCEPT !.latest = i, !.found = TRUE]
              /\ confirmed' = rec

AppendRecord(sample) ==
    \/ AppendRefused
    \/ \E part \in SUBSET PageSlots(journal.write) : SkipPage(part)
    \/ \E outcome \in {"failed", "unknown", "ok"} : Write(sample, outcome)

\* Power fails, between two appends or in the middle of one, and the journal is
\* read again: what was being erased or written is there in part.
CutFlash ==
    \/ flash' = flash
    \/ /\ journal.ready /\ StartsPage /\ ~HoldsLatest
       /\ \E part \in SUBSET PageSlots(journal.write) : flash' = Erased(flash, part)
    \/ /\ journal.ready /\ ~StartsPage
       /\ flash' = [flash EXCEPT ![journal.write] = Torn]

Reopen ==
    /\ CutFlash
    /\ Initialized(flash', journal')
    /\ confirmed' = CASE journal'.found -> flash'[journal'.latest]
                      [] ~journal'.found /\ journal'.ready -> NoRecord
                      [] ~journal'.ready -> confirmed

-----------------------------------------------------------------------------
JournalNext == Reopen \/ \E sample \in Samples : AppendRecord(sample)
JournalSpec == JournalInit /\ [][JournalNext]_journalVars

\* What the journal keeps: the last confirmed record is on the flash and is the
\* one append() protects; no two records share a generation.
JournalInv ==
    /\ JournalTypeOK
    /\ Opens(confirmed) => \E i \in Slots : flash[i] = confirmed
    /\ journal.ready /\ Opens(confirmed) => journal.found /\ flash[journal.latest] = confirmed
    /\ journal.found => journal.ready /\ Opens(confirmed)
    /\ journal.ready => \A i \in Slots : flash[i].gen <= journal.gen
    /\ \A i, k \in Slots : Opens(flash[i]) /\ flash[i].gen = flash[k].gen => i = k

\* The journal implements the checkpoint: whatever tears, fails or is cut, a cold
\* boot finds the sample confirmed last or one appended after it.
Promise == INSTANCE Checkpoint WITH
    confirmed <- confirmed.sample,
    maybe <- {flash[i].sample : i \in {k \in Slots : flash[k].gen > confirmed.gen}}
ImplementsCheckpoint == Promise!CheckpointSpec
=============================================================================
