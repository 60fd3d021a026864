-------------------------------- MODULE MCLink --------------------------------
(***************************************************************************)
(* Two requests for FrameLink: one without a payload, and one whose payload*)
(* looks like the beginning of a frame.                                    *)
(***************************************************************************)
EXTENDS FrameLink

TwoRequests == << << >>, MAGIC \o <<Header(0, 0)>> >>

\* A lone first byte of a magic; a header that promises more than any request; one
\* that promises a token more than there can be; a boot log.
LineNoise ==
  {<<Tok("E")>>,
   MAGIC \o <<Header(0, MAX_PAYLOAD)>>,
   MAGIC \o <<Header(0, MAX_PAYLOAD + 1)>>,
   <<Tok("other"), Tok("K")>>}
===============================================================================
