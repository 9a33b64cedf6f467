------------------------------ MODULE MC_Growth ------------------------------
\* Instances of Growth for TLC.
EXTENDS Growth

Ids == 1..MaxTasks
LastChannel == {NumChannels}
=============================================================================
