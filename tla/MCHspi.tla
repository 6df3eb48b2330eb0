------------------------------- MODULE MCHspi -------------------------------
(* Values for the constants of Hspi: commands and replies of one, two and  *)
(* three fragments, two of them at the boundary of a full last fragment.   *)
(* After the replies come the packets of the mesh.                         *)
EXTENDS HspiInv

MCReqLen == <<20, 62, 70, 31>>
MCRepLen == SubSeq(<<63, 31, 40, 93, 50, 20>>, 1, NPacks + NMesh)
MCAnswered == {1, 2, 4}

(* For the runs with an impatient master: short packs, so that one can     *)
(* arrive whole between two instructions of the receive task.              *)
ShortReqLen == <<20, 40, 40, 12>>
ShortRepLen == <<40, 20, 20, 20, 40>>
ShortAnswered == {1, 2}
=============================================================================
