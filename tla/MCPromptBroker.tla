--------------------------- MODULE MCPromptBroker ---------------------------
(***************************************************************************)
(* The prompts of two attempts from two windows, with known hosts that make*)
(* a key trusted, changed and unknown: unknown because of a hashed name, of a*)
(* missing fingerprint and of another port.                                *)
(***************************************************************************)
EXTENDS PromptBroker, TLC

ASSUME PromptAssumption

Symmetry == Permutations(Attempts) \cup Permutations(Windows)

Known(host, port, type, fp) ==
  [host |-> host, port |-> port, type |-> type, fp |-> fp]

\* A known key, a changed one beside one of another type, and entries that do
\* not count.
MCKnownLists ==
  { <<Known("h", 0, "ed", "f1")>>,
    <<Known("h", 22, "ed", "f2"), Known("h", 0, "rsa", "f1")>>,
    <<Known("hashed", 0, "ed", "f1"), Known("h", 0, "ed", "none"),
      Known("h", 2222, "ed", "f1")>> }

MCLiveKeys == { [type |-> "ed", fp |-> "f1"], [type |-> "unknown", fp |-> "f3"] }
=============================================================================
