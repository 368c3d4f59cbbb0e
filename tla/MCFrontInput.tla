---------------------------- MODULE MCFrontInput ----------------------------
EXTENDS FrontInput

MCHostInputs ==
  {{}, {"up"}, {"down"}, {"left"}, {"right"}, {"right", "A"}, {"A"}, {"B"},
   {"START"}, {"SELECT"}, {"POWER"}, {"0", "CL"}, {"5"}}

MCNineInputs == {{}, {"right"}, {"0"}, {"9"}}
=============================================================================
