---------------------------- MODULE MCUsbWorker -----------------------------
\* Instances of UsbWorker for TLC: two bulk-in transfers of up to two frames
\* each, and a channel of one datagram per direction.
EXTENDS UsbWorker
=============================================================================
