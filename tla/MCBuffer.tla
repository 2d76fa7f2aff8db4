-------------------------------- MODULE MCBuffer --------------------------------
EXTENDS Buffer

MCByte == 0 .. 2
MCData == {<<1>>, <<2>>, <<1, 2>>, <<2, 2, 1>>, <<1, 2, 2, 1>>}
MCLengths == {1, 3}
================================================================================
