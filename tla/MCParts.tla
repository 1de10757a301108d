------------------------------ MODULE MCParts ------------------------------
(* The parts that share no state with the rest or with each other, in one    *)
(* run: a behaviour explores one of them and leaves the others as they were. *)
EXTENDS All, Counters, Format, Owners, Upload

VARIABLE part  \* the one that is explored

Parts == {"all", "counters", "format", "owners", "upload"}

formatVars == <<input, buffer>>
partsVars == <<part, allVars, counterVars, formatVars, ownerVars, uploadVars>>

(* An empty file, a short one, and a longer one whose bytes all differ.      *)
MCVersions == {<<>>, <<"a">>, <<"b", "c", "d">>}

(* Those that are not explored start in one of their initial states.         *)
PartsInit ==
  /\ part \in Parts
  /\ AllInit /\ CounterInit /\ FormatInit /\ OwnersInit /\ UploadInit
  /\ part # "all" =>
       form = "range" /\ optional /\ \A t \in 1..Tasks : result[t] = "none"
  /\ part # "format" => buffer = CHOOSE size \in Buffers : TRUE
  /\ part # "upload" => local = Missing

FormatDone == input = Largest /\ UNCHANGED formatVars

PartsNext ==
  /\ \/ /\ part = "all" /\ AllNext
        /\ UNCHANGED <<counterVars, formatVars, ownerVars, uploadVars>>
     \/ /\ part = "counters" /\ CounterNext
        /\ UNCHANGED <<allVars, formatVars, ownerVars, uploadVars>>
     \/ /\ part = "format" /\ (FormatNext \/ FormatDone)
        /\ UNCHANGED <<allVars, counterVars, ownerVars, uploadVars>>
     \/ /\ part = "owners" /\ OwnersNext
        /\ UNCHANGED <<allVars, counterVars, formatVars, uploadVars>>
     \/ /\ part = "upload" /\ UploadNext
        /\ UNCHANGED <<allVars, counterVars, formatVars, ownerVars>>
  /\ UNCHANGED part

PartsSpec == PartsInit /\ [][PartsNext]_partsVars
=============================================================================
