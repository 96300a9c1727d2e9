---------------------------- MODULE MCAiGeneration ----------------------------
(* Small instances of AiGeneration: one user with two drafts. *)
EXTENDS AiGeneration, TLC

CONSTANTS r1, r2, r3, d1, d2, u1, k1, k2, s1, s2

Input(op, d, k, s) == [op |-> op, draft |-> d, key |-> k, at |-> s]

OneUserOwns == [d \in Drafts |-> u1]

\* Two keys on one draft, one of them repeated on another draft, and a regen.
MixedInputs == {Input("generate", d1, k1, s1), Input("generate", d1, k2, s1),
                Input("generate", d2, k1, s1), Input("regen", d1, k1, s1)}

\* The same generate request reaching either process.
TwoProcessInputs == {Input("generate", d1, k1, s1), Input("generate", d1, k1, s2)}

\* A generate and a regen of one draft in one process.
OneProcessInputs == {Input("generate", d1, k1, s1), Input("regen", d1, k1, s1)}

\* Sound where the inputs and the owner treat requests, or both processes, alike.
RequestSymmetry == Permutations(Requests)
ProcessSymmetry == Permutations(Requests) \cup Permutations(Servers)
===============================================================================
