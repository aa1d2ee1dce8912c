---------------------------- MODULE MCListeners ----------------------------
(***************************************************************************)
(* Instances of CueGate, CueListener, MetadataListener and HlsServer for   *)
(* TLC.  The threads and the supervisor's handlers share no more than the  *)
(* file and the gate, so each part is explored while the others wait: the  *)
(* gate with both routes, the cue thread with the gate and the file, the   *)
(* metadata thread with the file, the HLS server with the descriptors.     *)
(***************************************************************************)
EXTENDS CueListener, HlsServer, TLC

CONSTANT Budget   \* bound on the bytes of a client and its settings changes together

VARIABLE part

allVars == <<part, vars, metaVars, cueVars, hlsVars>>

MCCueOfByte == [b \in {2} |-> "BREAK"]

\* A part that waits stays in one initial state.
MetaWaits == metaOn = TRUE /\ metaFile = DefaultPort
CueWaits  == cueSet = CHOOSE set \in CueSettings : ~set.on
GateWaits == \A h \in Handlers : hcue[h] = CHOOSE c \in Cues : TRUE

AllInit ==
  /\ Init /\ MetaInit /\ CueInit /\ HlsInit
  /\ \/ part = "gate" /\ MetaWaits /\ CueWaits
     \/ part = "cue" /\ MetaWaits /\ GateWaits /\ cueSet.on
     \/ part = "metadata" /\ CueWaits /\ GateWaits
     \/ part = "server" /\ MetaWaits /\ CueWaits /\ GateWaits

AllNext ==
  /\ UNCHANGED part
  /\ \/ part = "gate" /\ Next /\ UNCHANGED <<metaVars, cueVars, hlsVars>>
     \/ /\ part = "cue" /\ (CueNext \/ CueRest) /\ UNCHANGED hlsVars
        /\ 2 * settings' + Len(got') <= Budget
     \/ part = "metadata" /\ (MetaNext \/ MetaRest) /\ UNCHANGED <<vars, cueVars, hlsVars>>
     \/ part = "server" /\ (HlsNext \/ HlsRest) /\ UNCHANGED <<vars, metaVars, cueVars>>

AllSpec == AllInit /\ [][AllNext]_allVars

(* Every variable of the four parts keeps its type.                         *)
ListenerTypes == TypeOK /\ MetaTypeOK /\ CueTypeOK /\ HlsTypeOK

ListenerSymmetry == Permutations(Handlers) \cup Permutations(Sources)
=============================================================================
