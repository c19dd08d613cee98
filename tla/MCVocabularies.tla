--------------------------- MODULE MCVocabularies ---------------------------
(* Admission on files that keep to one of the vocabularies of MCAdmission.  *)
EXTENDS MCAdmission

\* A file sticks to one of the vocabularies; the blocks given whole come alone.
CONSTANT Vocabularies
VARIABLE vocabulary

ByVocabulary == [plain |-> PlainLines, whole |-> WholeBlocks, pieces |-> Pieces, nested |-> NestedLines]
EveryLine == PlainLines \cup WholeBlocks \cup Pieces \cup NestedLines

MCInit == Init /\ vocabulary \in DOMAIN Vocabularies

MCReadLine ==
    /\ vocabulary = "whole" => line_num = 0
    /\ \E l \in Vocabularies[vocabulary] : ReadLine(l)

MCNext == (MCReadLine \/ EndOfFile \/ CheckAllDeclars \/ Done) /\ UNCHANGED vocabulary

MCSpec == MCInit /\ [][MCNext]_<<vars, vocabulary>>
=============================================================================
