------------------------------ MODULE MCQueue ------------------------------
(***************************************************************************)
(* Queue for TLC: the mapping to the abstract Playlist.                    *)
(***************************************************************************)
EXTENDS Queue

P == INSTANCE Playlist WITH
        tape <- Snapshot,
        pos <- Len(history),
        playing <- current # NoTrack

(* The three lists behave as one tape with a cursor: every step of the queue
   is a step of Playlist, whose listener has no idea of the shadow list. *)
QueueIsPlaylist == P!Spec
=============================================================================
