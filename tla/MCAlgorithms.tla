---------------------------- MODULE MCAlgorithms ----------------------------
(* The two pure algorithms, base62_encode_u64 and glob_match.  They share  *)
(* nothing, so one run starts from every input of the one together with a  *)
(* fixed input of the other: values that take up to three digits, and all  *)
(* patterns and texts over two letters and the star up to length four.     *)
EXTENDS GlobMatch, Base62

ASSUME StarAssumption == Star \notin Letter
ASSUME LengthAssumption == MaxPattern \in Nat /\ MaxText \in Nat

AlgorithmsInit ==
    \/ pattern = <<>> /\ text = <<>> /\ Init /\ GlobInit
    \/ input = 0 /\ Init /\ GlobInit

AlgorithmsNext ==
    \/ Next /\ UNCHANGED globVars
    \/ GlobNext /\ UNCHANGED vars

algorithmVars == <<vars, globVars>>

AlgorithmsSpec == AlgorithmsInit /\ [][AlgorithmsNext]_algorithmVars
=============================================================================
