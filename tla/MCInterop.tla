----------------------------- MODULE MCInterop ------------------------------
EXTENDS Interop

TxSdksValue == {Version(1, 0, 2), Version(2, 1, 4), ThisSdk, Version(2, 4, 6)}
RxSdksValue == TxSdksValue \cup {Version(2, 0, 0), Version(2, 3, 6)}
SourcesValue == {<<20, 15>>, <<7, 7, 7>>}
=============================================================================
