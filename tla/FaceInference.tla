--------------------------- MODULE FaceInference ---------------------------
(***************************************************************************)
(* The native face embedding (entry/src/main/cpp/face_inference.cpp): the  *)
(* check of a picture's payload and the pixels of it that are read.        *)
(*                                                                         *)
(* The payload is eight bytes, the width and the height of the picture,    *)
(* and then four bytes for each pixel.  The network that reads the pixels  *)
(* and the normalisation of what it answers are not modelled.              *)
(***************************************************************************)
EXTENDS Integers

Word == {n \in Nat : n < 65536 * 65536}   \* uint32_t
SizeT == 65536 * 65536 * 65536 * 65536  \* size_t is computed modulo this

RecognizerSize == 112
DetectorSize == 640
Header == 8

\* A number of four bytes, the lowest first.
ReadLeU32(data) ==
  data[1] + (data[2] * 256) + (data[3] * 65536) + (data[4] * 16777216)

ExpectedLength(width, height) == (Header + (width * height * 4)) % SizeT

\* The checks that a payload passes before a pixel of it is read.
Accepted(width, height, rawLength) ==
  /\ rawLength >= Header
  /\ width >= 16 /\ height >= 16
  /\ rawLength >= ExpectedLength(width, height)

Crop(width, height) == IF width < height THEN width ELSE height

\* The centre crop: what a row or a column of the network's input is taken from.
CropSource(size, crop, i) ==
  ((size - crop) \div 2) + ((i * crop) \div RecognizerSize)

\* The detector sees the whole picture.
DetectorSource(size, i) == (i * size) \div DetectorSize

\* The first of a pixel's bytes, behind the header.
PixelOffset(width, srcX, srcY) == Header + (((srcY * width) + srcX) * 4)

\* The offsets read for the recognizer's input, red, green and blue.
RecognizerOffsets(width, height) ==
  LET crop == Crop(width, height) IN
  {PixelOffset(width, CropSource(width, crop, x), CropSource(height, crop, y)) + c :
     x \in 0..(RecognizerSize - 1), y \in 0..(RecognizerSize - 1), c \in 0..2}

DetectorOffsets(width, height) ==
  {PixelOffset(width, DetectorSource(width, x), DetectorSource(height, y)) + c :
     x \in 0..(DetectorSize - 1), y \in 0..(DetectorSize - 1), c \in 0..2}
=============================================================================
