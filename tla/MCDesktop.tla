----------------------------- MODULE MCDesktop ------------------------------
(* Two images, one of them ready, for model checking DesktopApp.            *)
EXTENDS DesktopApp

CONSTANTS plain, rich, out, esc

MCVolume == [path \in {plain, rich} |->
    IF path = plain THEN DemoExfat ELSE DemoNtfs]

MCEscrowOf == [path \in {out} |-> esc]

MCConvertible ==
    {[image |-> plain, mode |-> "strict", restore |-> NoPath],
     [image |-> rich, mode |-> "escrow", restore |-> NoPath]}

MCGenuine ==
    {[candidate |-> out, escrow |-> esc, source |-> rich]}
=============================================================================
