------------------------------ MODULE MCIsoLink -----------------------------
(* Small instances of IsoLink.tla. *)
EXTENDS IsoLink, TLC

CONSTANTS m1, m2, m3, m4, a, b

\* Two messages for one device, one for another, and MIDI 1.0 data for both.
MCDest == m1 :> a @@ m2 :> a @@ m3 :> b @@ m4 :> Everyone
MCData == m1 :> <<147, 60, 64>> @@ m2 :> <<193, 5>> @@ m3 :> <<224, 1, 2>>
          @@ m4 :> <<240, 126, 247>>

\* One device gets a message, then three packets go to the other.
WrapDest == m1 :> a @@ m2 :> b @@ m3 :> b @@ m4 :> a
WrapData == m1 :> <<147, 60, 64>> @@ m2 :> <<193, 5>> @@ m3 :> <<224, 1, 2>>
            @@ m4 :> <<128, 60, 64>>
=============================================================================
