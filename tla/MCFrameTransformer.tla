-------------------------- MODULE MCFrameTransformer --------------------------
(* Constant values for checking FrameTransformer: alice sends one audio and  *)
(* one video stream, bob has a receiver for the video.                       *)
EXTENDS FrameTransformer

CONSTANTS alice, bob, mic, camera, window

Owners == [x \in Transformers |-> IF x \in Senders THEN alice ELSE bob]
SendersInOrder == (alice :> <<mic, camera>>) @@ (bob :> <<>>)
Symmetry == Permutations(Keys)
=============================================================================
