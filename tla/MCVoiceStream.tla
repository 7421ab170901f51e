---------------------------- MODULE MCVoiceStream ----------------------------
(* VoiceStream as TLC checks it; MCVoiceStream.cfg gives the bounds. *)
EXTENDS VoiceStream
=============================================================================
