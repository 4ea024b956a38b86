----------------------------- MODULE MCCoSystem -----------------------------
EXTENDS CoSystem
CONSTANTS j, g1, g2
MCAllocations == {{0}}
MCScenes == {{}, {j, g1, g2}}
=============================================================================
