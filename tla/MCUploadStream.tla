--------------------------- MODULE MCUploadStream ---------------------------
EXTENDS UploadStream

CONSTANTS percent, other

MCBytes == {percent, other}
MCSignature == <<percent, other>>
=============================================================================
