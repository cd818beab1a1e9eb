\* The in-memory tree: five paths, two handles, offsets 0..1.
SPECIFICATION Spec
CONSTANTS
    a = a
    b = b
    Name = {a, b}
    Path <- MCPath
    Byte = {0, 1}
    Zero = 0
    Handle = {h1, h2}
    Offset = {0, 1}
    Chunk <- MCChunk
    NoNode = NoNode
INVARIANTS BackendSafe
PROPERTIES CallsSound
