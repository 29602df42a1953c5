-------------------------- MODULE DocumentSequence --------------------------
(***************************************************************************)
(* The document numbers of one tenant and document type                     *)
(* (internal/modules/documents/sequence.go): a counter row that calls of    *)
(* all replicas create on first use, read, and advance by compare-and-set.  *)
(* Settings calls change the format kept in the same row.  Any statement    *)
(* may fail, a write also after it took effect.                             *)
(***************************************************************************)
EXTENDS Integers

CONSTANTS
    Caller,     \* goroutines that use the sequence, over all replicas
    Formats,    \* settings the tenant may choose
    Default,    \* the platform's settings
    MaxTries,   \* compare-and-set attempts of a call (5)
    MaxCalls    \* bound on calls started

ASSUME SequenceAssumption ==
    /\ Default \in Formats
    /\ MaxTries \in Nat \ {0}
    /\ MaxCalls \in Nat

VARIABLES
    row,        \* the document_sequences row
    call,       \* call[c]: the call caller c is in
    issued,     \* history: numbers handed out
    top,        \* history: the last of them
    started,    \* history: calls started
    clean       \* history: no compare-and-set has failed with an error

vars == <<row, call, issued, top, started, clean>>

Idle == [pc |-> "idle", job |-> "peek", id |-> 0, tries |-> 0, errs |-> 0,
         old |-> 0, from |-> 0, floor |-> 0]

Init ==
    /\ row = [made |-> FALSE, val |-> 0, format |-> Default]
    /\ call = [c \in Caller |-> Idle]
    /\ issued = {} /\ top = 0
    /\ started = 0
    /\ clean = TRUE

At(c, l) == call[c].pc = l

\* GenerateNumber, UpdateConfig, and PreviewNext or ListConfigs begin by finding the row.
\* The history notes the counter and the numbers handed out by then.
Begin(c, job) ==
    /\ call[c].pc \in {"idle", "gaveup"}
    /\ started < MaxCalls
    /\ started' = started + 1
    /\ call' = [call EXCEPT ![c] = [Idle EXCEPT !.pc = "read", !.job = job, !.id = started,
                                                !.from = row.val, !.floor = top]]
    /\ UNCHANGED <<row, issued, top, clean>>

Goto(c, l) == call' = [call EXCEPT ![c].pc = l]
End(c)     == call' = [call EXCEPT ![c] = Idle]

\* getOrCreate returns with a row that holds this counter.
Got(c, val) ==
    CASE call[c].job = "number" -> call' = [call EXCEPT ![c].pc = "cas", ![c].old = val]
      [] call[c].job = "config" -> call' = [call EXCEPT ![c].pc = "write", ![c].old = val]
      [] OTHER                  -> End(c)

\* An attempt is over without a number. A lost one starts again from the row.
Exhausted(c)      == call[c].tries + 1 = MaxTries

AfterLoss_SameRow == "cas"
AfterLoss         == "read"

Retry(c, e, l) ==
    call' = [call EXCEPT ![c].tries = @ + 1, ![c].errs = @ + e,
                         ![c].pc = IF Exhausted(c) THEN "gaveup" ELSE l]

\* An error ends a settings call, and costs a number call one attempt.
Failed(c) ==
    IF call[c].job = "number" THEN Retry(c, 1, "read") ELSE End(c)

----------------------------------------------------------------------------
(* getOrCreate                                                              *)

Lookup(c) ==
    /\ At(c, "read")
    /\ \/ row.made /\ Got(c, row.val)
       \/ ~row.made /\ Goto(c, "create")
       \/ Failed(c)
    /\ UNCHANGED <<row, issued, top, started, clean>>

Fresh_FromOne == [made |-> TRUE, val |-> 1, format |-> Default]
Fresh         == [made |-> TRUE, val |-> 0, format |-> Default]

\* The unique (tenant_id, doc_type) index lets one insert win; after any error of the
\* insert the row is read again.
Create(c) ==
    /\ At(c, "create")
    /\ \/ ~row.made /\ row' = Fresh /\ Got(c, Fresh.val)
       \/ /\ row' \in (IF row.made THEN {row} ELSE {row, Fresh})
          /\ Goto(c, "reread")
    /\ UNCHANGED <<issued, top, started, clean>>

Reread(c) ==
    /\ At(c, "reread")
    /\ \/ row.made /\ Got(c, row.val)
       \/ Failed(c)
    /\ UNCHANGED <<row, issued, top, started, clean>>

----------------------------------------------------------------------------
(* The compare-and-set, and what the settings call writes                    *)

Unchanged_Any(c) == TRUE
Unchanged(c)     == row.val = call[c].old

Take(c) ==
    /\ At(c, "cas")
    /\ Unchanged(c)
    /\ row' = [row EXCEPT !.val = call[c].old + 1]
    /\ issued' = issued \cup {[id |-> call[c].id, n |-> call[c].old + 1,
                               floor |-> call[c].floor]}
    /\ top' = call[c].old + 1
    /\ End(c)
    /\ UNCHANGED <<started, clean>>

Lose(c) ==
    /\ At(c, "cas")
    /\ ~Unchanged(c)
    /\ Retry(c, 0, AfterLoss)
    /\ UNCHANGED <<row, issued, top, started, clean>>

\* The statement fails, and nobody knows whether the counter moved.
CasFails(c) ==
    /\ At(c, "cas")
    /\ row' \in {row} \cup
            (IF Unchanged(c) THEN {[row EXCEPT !.val = call[c].old + 1]} ELSE {})
    /\ Retry(c, 1, "read")
    /\ clean' = FALSE
    /\ UNCHANGED <<issued, top, started>>

Configured_WholeRow(c, f) == [row EXCEPT !.format = f, !.val = call[c].old]
Configured(c, f)          == [row EXCEPT !.format = f]

WriteConfig(c) ==
    /\ At(c, "write")
    /\ row' \in {row} \cup {Configured(c, f) : f \in Formats}
    /\ End(c)
    /\ UNCHANGED <<issued, top, started, clean>>

----------------------------------------------------------------------------
Next ==
    \E c \in Caller :
        \/ \E job \in {"number", "config", "peek"} : Begin(c, job)
        \/ Lookup(c) \/ Create(c) \/ Reread(c)
        \/ Take(c) \/ Lose(c) \/ CasFails(c) \/ WriteConfig(c)

Spec == Init /\ [][Next]_vars

----------------------------------------------------------------------------
(* Properties                                                               *)

Call == [pc : {"idle", "read", "create", "reread", "cas", "write", "gaveup"},
         job : {"number", "config", "peek"}, id : Nat, tries : Nat, errs : Nat,
         old : Nat, from : Nat, floor : Nat]

\* Type invariant. A call makes at most MaxTries attempts.
TypeOK ==
    /\ row \in [made : BOOLEAN, val : Nat, format : Formats]
    /\ call \in [Caller -> Call]
    /\ \A c \in Caller :
          call[c].tries < MaxTries \/ (At(c, "gaveup") /\ call[c].tries = MaxTries)
    /\ issued \subseteq [id : Nat, n : Nat, floor : Nat]
    /\ top \in Nat /\ started \in Nat /\ clean \in BOOLEAN

\* No two calls are handed the same number, whatever the settings calls and failing
\* statements between ("race-safe, tenant-configurable document numbers").
NumbersUnique == \A x, y \in issued : x.n = y.n => x = y

\* A call that begins after another returned gets a larger number.
LaterIsLarger == \A x \in issued : x.floor < x.n

\* A call loses an attempt only to an error of its own or to a number handed to another,
\* each to a different one; so it gives up for want of luck, not of progress.
LostOnlyToOthers ==
    \A c \in Caller : call[c].pc # "idle" /\ call[c].job = "number" =>
        call[c].tries <= call[c].errs + (row.val - call[c].from)

\* Unless a compare-and-set failed with an error, the numbers handed out have no gap.
Gapless == clean => {x.n : x \in issued} = 1 .. row.val

\* Seen from outside, the calls of all replicas are one register that counts up by one: a
\* call takes its number in one instant, however many statements it is made of.
Register == INSTANCE NumberRegister
    WITH count <- row.val, handed <- {x.n : x \in issued}

ImplementsRegister == Register!Spec

----------------------------------------------------------------------------
(* Inductive strengthening                                                  *)

\* A call about to advance the counter read it after it began, each earlier attempt was
\* paid for before that, and no number lies beyond the counter.
CounterInv ==
    /\ ~row.made => row.val = 0
    /\ top <= row.val
    /\ \A x \in issued : x.n \in 1 .. row.val /\ x.id < started
    /\ \A c \in Caller : call[c].pc # "idle" =>
          call[c].id < started /\ call[c].floor <= call[c].from /\ call[c].from <= row.val
    /\ \A c \in Caller : At(c, "cas") =>
          /\ row.made /\ call[c].job = "number"
          /\ call[c].from <= call[c].old /\ call[c].old <= row.val
          /\ call[c].tries <= call[c].errs + (call[c].old - call[c].from)
=============================================================================
