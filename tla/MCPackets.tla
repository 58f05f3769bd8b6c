------------------------------- MODULE MCPackets -------------------------------
(***************************************************************************)
(* The components that carry packets, on small instances: the ALN router,   *)
(* incoming messages, responder links, announces, the NomadNet browser, the *)
(* session, the framings, the codecs and the transports' writes. They share *)
(* no state in the model, so a behaviour is one component's: part says      *)
(* whose, and the others rest.                                              *)
(***************************************************************************)
EXTENDS AlnRouter, Inbound, ResponderLink, Announcing, NomadNet, Session, Framing, Codec,
  Transports, TLC

CONSTANTS a1, a2, d1, l1, k1, f1, b1, idX, idY, hashZ  \* packets, identities, a proof's hash

VARIABLE part

vars == <<part, alnVars, inboundVars, responderVars, announceVars, nnVars,
          sessionVars, framingVars, codecVars, transportVars>>

(* Incoming messages make two parts: three copies while the contact stays,  *)
(* and two copies while it changes and the page reloads.                    *)
Parts == {"aln", "copies", "contact", "responder", "announcing", "nomadnet", "session",
          "framing", "codec", "transports"}

MCKindOf ==
  (a1 :> "announce") @@ (a2 :> "announce") @@ (d1 :> "data") @@ (l1 :> "linkreq")
    @@ (k1 :> "link") @@ (f1 :> "proof") @@ (b1 :> "plain")
MCDestOf ==
  (a1 :> idX) @@ (a2 :> idX) @@ (d1 :> idX) @@ (l1 :> idY) @@ (k1 :> l1) @@ (f1 :> hashZ)
    @@ (b1 :> idX)

Init ==
  /\ part \in Parts
  /\ AlnInit /\ (part # "aln" => fallback = Nobody)
  /\ InboundInit /\ ResponderInit /\ NnInit /\ SessionInit
  /\ AnnouncingInit /\ (part # "announcing" => radio /\ ~rotateDue)
  /\ IF part = "framing" THEN FramingInit ELSE NothingSent
  /\ CodecInit
  /\ TransportInit /\ (part # "transports" => medium = "ble")

Next ==
  \/ /\ part = "aln" /\ AlnNext
     /\ UNCHANGED <<part, inboundVars, responderVars, announceVars, nnVars, sessionVars,
                    framingVars, codecVars, transportVars>>
  \/ /\ part = "copies" /\ \E c \in Copies : CopyStep(c)
     /\ UNCHANGED <<part, alnVars, responderVars, announceVars, nnVars, sessionVars,
                    framingVars, codecVars, transportVars>>
  \/ /\ part = "contact" /\ InboundNext /\ (\A c \in Copies : c > 2 => copy'[c] = Away)
     /\ UNCHANGED <<part, alnVars, responderVars, announceVars, nnVars, sessionVars,
                    framingVars, codecVars, transportVars>>
  \/ /\ part = "responder" /\ ResponderNext
     /\ UNCHANGED <<part, alnVars, inboundVars, announceVars, nnVars, sessionVars,
                    framingVars, codecVars, transportVars>>
  \/ /\ part = "announcing" /\ AnnouncingNext
     /\ UNCHANGED <<part, alnVars, inboundVars, responderVars, nnVars, sessionVars,
                    framingVars, codecVars, transportVars>>
  \/ /\ part = "nomadnet" /\ NnNext
     /\ UNCHANGED <<part, alnVars, inboundVars, responderVars, announceVars, sessionVars,
                    framingVars, codecVars, transportVars>>
  \/ /\ part = "session" /\ SessionNext
     /\ UNCHANGED <<part, alnVars, inboundVars, responderVars, announceVars, nnVars,
                    framingVars, codecVars, transportVars>>
  \/ /\ part = "framing" /\ FramingNext
     /\ UNCHANGED <<part, alnVars, inboundVars, responderVars, announceVars, nnVars,
                    sessionVars, codecVars, transportVars>>
  \/ /\ part = "codec" /\ CodecNext
     /\ UNCHANGED <<part, alnVars, inboundVars, responderVars, announceVars, nnVars,
                    sessionVars, framingVars, transportVars>>
  \/ /\ part = "transports" /\ TransportNext
     /\ UNCHANGED <<part, alnVars, inboundVars, responderVars, announceVars, nnVars,
                    sessionVars, framingVars, codecVars>>

Spec == Init /\ [][Next]_vars

(* The component whose behaviour it is is well typed; the others rest.      *)
TypeOK ==
  CASE part = "aln" -> AlnTypeOK
    [] part = "copies" -> InboundTypeOK
    [] part = "contact" -> InboundTypeOK
    [] part = "responder" -> ResponderTypeOK
    [] part = "announcing" -> AnnouncingTypeOK
    [] part = "nomadnet" -> NnTypeOK
    [] part = "session" -> SessionTypeOK
    [] part = "framing" -> FramingTypeOK
    [] part = "codec" -> CodecTypeOK
    [] part = "transports" -> TransportTypeOK

(* The mesh nodes differ in name only.                                      *)
Symmetry == Permutations(Nodes)
=============================================================================
