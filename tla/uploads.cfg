SPECIFICATION QReqSpec
CONSTANTS
  Proc = {p1, p2}
  Requests <- OneUpload
  UploadIds = {u1, u2}
  BufferSize = 2
  MaxNow = 1
  MaxCame = 2
  None = None
PROPERTY RemovesOldUploads
CHECK_DEADLOCK FALSE
