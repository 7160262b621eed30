----------------------------- MODULE ProvData ------------------------------
(***************************************************************************)
(* The endpoints of provisioning that hand a phone the parameters and the  *)
(* configuration of the node (core/esp_rmaker_prov_local_ctrl.c).          *)
(*                                                                         *)
(* They do so in fragments: the request at offset 0 takes a copy, the ones *)
(* behind it read the copy, and the last fragment frees it.  There is one  *)
(* copy, for both endpoints.  Parameters change meanwhile, and answers are *)
(* lost: the phone asks again, and from the start when told that there is  *)
(* no data.                                                                *)
(*                                                                         *)
(* A fragment is given by the copy it is part of.                          *)
(***************************************************************************)
EXTENDS Naturals, Sequences

CONSTANTS NumFragments, MaxVersions

ASSUME ProvDataAssumption ==
    NumFragments \in Nat \ {0} /\ MaxVersions \in Nat \ {0}

Data == {"params", "config"}
Copy == [type : Data, version : 1..MaxVersions]
NoCopy == [type |-> "none", version |-> 0]

VARIABLES
    version,    (* of what the node has to tell                              *)
    kept,       (* s_local_ctrl_data                                         *)
    pieces,     (* the fragments of each type the phone has                  *)
    mixed       (* the types whose reading it left for the other one         *)

data == <<version, kept, pieces, mixed>>

DataInit ==
    /\ version = 1 /\ kept = NoCopy
    /\ pieces = [t \in Data |-> <<>>] /\ mixed = {}

\* A parameter changes, by the phone's request (set_params) or otherwise.
Change ==
    /\ version < MaxVersions /\ version' = version + 1
    /\ UNCHANGED <<kept, pieces, mixed>>

\* prov_local_ctrl_data_free
Free == kept' = NoCopy

(* MUTANT of Source: each request is answered from what the node has now.   *)
SourceNow(t, offset) == [type |-> t, version |-> version]

\* esp_rmaker_get_data_handler: the copy that a request is answered from.
\* The type of the copy is not compared with that of the request.
Source(t, offset) ==
    IF offset = 0 THEN [type |-> t, version |-> version] ELSE kept

Begun(t) == pieces[t] # <<>> /\ Len(pieces[t]) < NumFragments

\* A request of the phone for its next fragment.  Taking the copy may fail
\* for want of memory, and the answer may be lost.
Read(t, copied, arrives) ==
    LET offset == Len(pieces[t])
        source == IF offset = 0 /\ ~copied THEN NoCopy ELSE Source(t, offset)
    IN  /\ offset < NumFragments
        /\ IF offset + 1 = NumFragments THEN Free ELSE kept' = source
        /\ pieces' = [pieces EXCEPT ![t] =
                        IF ~arrives THEN @
                        ELSE IF source = NoCopy THEN <<>>
                        ELSE Append(@, source)]
        /\ mixed' = IF offset = 0
                    THEN {u \in Data \ {t} : Begun(u)} \cup (mixed \ {t})
                    ELSE mixed
        /\ UNCHANGED version

\* The phone reads once more what it has read.
ReadAgain(t) ==
    /\ Len(pieces[t]) = NumFragments
    /\ pieces' = [pieces EXCEPT ![t] = <<>>]
    /\ mixed' = mixed \ {t}
    /\ UNCHANGED <<version, kept>>

DataTypeOK ==
    /\ version \in 1..MaxVersions
    /\ kept \in Copy \cup {NoCopy}
    /\ mixed \subseteq Data
    /\ DOMAIN pieces = Data
    /\ \A t \in Data : pieces[t] \in Seq(Copy) /\ Len(pieces[t]) <= NumFragments

\* What a phone put together is one copy of what it asked for, whatever
\* changed meanwhile, and however often it asked; if it did not read the one
\* type while it was at the other.
WholeCopy ==
    \A t \in Data \ mixed :
        \A i \in 1..Len(pieces[t]) :
            pieces[t][i] = pieces[t][1] /\ pieces[t][i].type = t
=============================================================================
