------------------------------ MODULE MCMedia ------------------------------
(* A small instance of Media: three packets for the player, and for the capture four samples of two
   bytes and a buffer that holds two of them. *)
EXTENDS Media

SampleBytes == 2
TwoSamples == 2 * SampleBytes
=============================================================================
